---------------------------- MODULE Spec2Model ----------------------------
(***************************************************************************)
(* Display-state engine of yStrokey (crates/core/src/state.rs): the item   *)
(* list, the press-target map, the repeat tracker, the IME fallback state  *)
(* and the romaji transliterator, as a state machine.                      *)
(*                                                                         *)
(* Time is counted in whole units (one unit stands for a fixed number of   *)
(* milliseconds); an Instant is a natural number and a Duration is the     *)
(* saturating difference of two Instants, as Instant::duration_since is.   *)
(* Opacities are exact fractions <<numerator, denominator>> in lowest      *)
(* terms; the f32 rounding of the source is not modelled.                  *)
(* Text is a sequence of characters; a character is a one-letter string    *)
(* for ASCII and "Uxxxx" (its code point) otherwise.                       *)
(***************************************************************************)
EXTENDS Integers, Sequences, FiniteSets, TLC

VARIABLES
    items,                  \* DisplayState.items
    repeat_tracker,         \* DisplayState.repeat_tracker
    config,                 \* DisplayState.config
    next_id,                \* DisplayState.next_id
    active_presses,         \* DisplayState.active_presses
    ime_composing,          \* DisplayState.ime_composing
    ime_native_composing,   \* DisplayState.ime_native_composing
    ime_fallback_enabled,   \* DisplayState.ime_fallback_enabled
    ime_fallback_romaji,    \* DisplayState.ime_fallback_romaji
    now,                    \* the clock read by the hooks and the main loop
    last,                   \* the call made by the last step and what it returned
    hist,                   \* the calls made so far (recorded by the scenario specifications)
    tr                      \* the transliterator loop: buffer, position, output

engine == <<items, repeat_tracker, config, next_id, active_presses,
            ime_composing, ime_native_composing, ime_fallback_enabled,
            ime_fallback_romaji>>

vars == <<items, repeat_tracker, config, next_id, active_presses,
          ime_composing, ime_native_composing, ime_fallback_enabled,
          ime_fallback_romaji, now, last, hist, tr>>

-----------------------------------------------------------------------------
(* Bounds of the model *)

MaxTime == 2
MaxId == 2
MaxHist == 5
MaxBuf == 3
MaxRepeat == 2
MaxFadeTime == 5
MaxPressTime == 1
MaxClipLen == 3
MaxRomajiLen == 3

-----------------------------------------------------------------------------
(* Generic helpers *)

None == <<>>
Some(x) == <<x>>
IsSome(o) == o # <<>>
Unwrap(o) == o[1]

Max(a, b) == IF a >= b THEN a ELSE b
Min(a, b) == IF a <= b THEN a ELSE b

\* Instant::duration_since: saturates at zero
duration_since(later, earlier) == Max(0, later - earlier)

RECURSIVE GCD(_, _)
GCD(a, b) == IF b = 0 THEN a ELSE GCD(b, a % b)

\* a fraction n/d (d > 0) in lowest terms
Frac(n, d) == LET g == GCD(n, d) IN <<n \div g, d \div g>>
FracLeq(p, q) == p[1] * q[2] <= q[1] * p[2]
OpacityOne == Frac(1, 1)
OpacityZero == Frac(0, 1)

Range(f) == {f[x] : x \in DOMAIN f}

-----------------------------------------------------------------------------
(* key.rs: key codes (Win32 VK values) and their labels *)

KEY_1 == 49
KEY_A == 65
KEY_B == 66
KEY_C == 67
KEY_D == 68
KEY_K == 75
KEY_N == 78
NUMPAD_1 == 97
NUMPAD_ENTER == 525
L_SHIFT == 160
L_CTRL == 162
BACKSPACE == 8
ENTER == 13
F1 == 112
VK_KANA == 21
VK_IME_ON == 22
VK_KANJI == 25
VK_IME_OFF == 26
VK_OEM_3 == 192

\* KeyCode::label
label(key) ==
    CASE key = KEY_1 -> "1"
      [] key = KEY_A -> "A"
      [] key = KEY_B -> "B"
      [] key = KEY_C -> "C"
      [] key = KEY_D -> "D"
      [] key = KEY_K -> "K"
      [] key = KEY_N -> "N"
      [] key = NUMPAD_1 -> "Num1"
      [] key = NUMPAD_ENTER -> "NumEnter"
      [] key \in {L_CTRL, 163} -> "Ctrl"
      [] key \in {L_SHIFT, 161} -> "Shift"
      [] key \in {164, 165} -> "Alt"
      [] key \in {91, 92} -> "Win"
      [] key = BACKSPACE -> "BS"
      [] key = ENTER -> "Enter"
      [] key = F1 -> "F1"
      [] OTHER -> "?"

\* KeyCode::label_plain
label_plain(key) ==
    CASE key = NUMPAD_1 -> "1"
      [] key = NUMPAD_ENTER -> "Enter"
      [] OTHER -> label(key)

\* KeyCode::is_modifier
is_modifier(key) == key \in {162, 163, 160, 161, 164, 165, 91, 92}

\* str::eq_ignore_ascii_case on the labels and entries the model uses:
\* both sides are lower-cased letter by letter
ascii_lowercase(str) ==
    CASE str \in {"A", "a"} -> "a"
      [] str \in {"B", "b"} -> "b"
      [] str \in {"C", "c"} -> "c"
      [] str \in {"D", "d"} -> "d"
      [] str \in {"K", "k"} -> "k"
      [] str \in {"N", "n"} -> "n"
      [] str \in {"F1", "f1"} -> "f1"
      [] str \in {"Enter", "ENTER", "enter"} -> "enter"
      [] str \in {"BS", "bs"} -> "bs"
      [] OTHER -> str

\* a faulty comparison, which tells upper case from lower case
eq_with_case(a, b) == a = b

eq_ignore_ascii_case(a, b) == ascii_lowercase(a) = ascii_lowercase(b)

-----------------------------------------------------------------------------
(* event.rs *)

\* Modifiers
Mods(ctrl, shift, alt, win) == [ctrl |-> ctrl, shift |-> shift, alt |-> alt, win |-> win]
NoMods == Mods(FALSE, FALSE, FALSE, FALSE)
CtrlMods == Mods(TRUE, FALSE, FALSE, FALSE)
ShiftMods == Mods(FALSE, TRUE, FALSE, FALSE)
CtrlShiftMods == Mods(TRUE, TRUE, FALSE, FALSE)

\* Modifiers::any
any(m) == m.ctrl \/ m.shift \/ m.alt \/ m.win

\* KeyEvent
KeyEvent(key, action, modifiers, is_numpad, scan_code, timestamp) ==
    [key |-> key, action |-> action, modifiers |-> modifiers,
     is_numpad |-> is_numpad, scan_code |-> scan_code, timestamp |-> timestamp]

-----------------------------------------------------------------------------
(* state.rs: data *)

\* DisplayItemKind
KeyStroke(lbl, modifiers, action, repeat_count) ==
    [tag |-> "KeyStroke", label |-> lbl, modifiers |-> modifiers,
     action |-> action, repeat_count |-> repeat_count]
KeyStrokeGroup(strokes) == [tag |-> "KeyStrokeGroup", strokes |-> strokes]
Shortcut(keys_label, action_label) ==
    [tag |-> "Shortcut", keys_label |-> keys_label, action_label |-> action_label]
ImeComposition(text) == [tag |-> "ImeComposition", text |-> text]
ClipboardPreview(text) == [tag |-> "ClipboardPreview", text |-> text]
LockIndicator(caps, num, scroll) ==
    [tag |-> "LockIndicator", caps |-> caps, num |-> num, scroll |-> scroll]

\* KeyStrokeEntry
KeyStrokeEntry(lbl, modifiers, action, repeat_count) ==
    [label |-> lbl, modifiers |-> modifiers, action |-> action,
     repeat_count |-> repeat_count]

\* PressKey::from_key_event
PressKey(ke) == [scan_code |-> ke.scan_code, is_numpad |-> ke.is_numpad]

\* PressTarget::item
PressTargetItem(item_id) == [item_id |-> item_id, group_index |-> None]
\* PressTarget::group (group_index counts from 0, as in the source)
PressTargetGroup(item_id, group_index) ==
    [item_id |-> item_id, group_index |-> Some(group_index)]

\* HashMap::remove
MapRemove(m, k) == [x \in DOMAIN m \ {k} |-> m[x]]
\* HashMap::insert
MapInsert(m, k, v) == [x \in DOMAIN m \cup {k} |-> IF x = k THEN v ELSE m[x]]
EmptyMap == [x \in {} |-> None]

\* the DisplayState the variables hold
Self ==
    [items |-> items, repeat_tracker |-> repeat_tracker, config |-> config,
     next_id |-> next_id, active_presses |-> active_presses,
     ime_composing |-> ime_composing,
     ime_native_composing |-> ime_native_composing,
     ime_fallback_enabled |-> ime_fallback_enabled,
     ime_fallback_romaji |-> ime_fallback_romaji]

\* RepeatTracker::new
RepeatTracker_new(timeout, t) ==
    [last_key |-> None, last_modifiers |-> NoMods, count |-> 0,
     last_time |-> t, timeout |-> timeout]

\* DisplayState::new
DisplayState_new(cfg, t) ==
    [items |-> <<>>,
     repeat_tracker |-> RepeatTracker_new(cfg.repeat_timeout_ms, t),
     config |-> cfg, next_id |-> 0, active_presses |-> EmptyMap,
     ime_composing |-> FALSE, ime_native_composing |-> FALSE,
     ime_fallback_enabled |-> FALSE, ime_fallback_romaji |-> <<>>]

IsIme(item) == item.kind.tag = "ImeComposition"
NotIme(item) == item.kind.tag # "ImeComposition"

-----------------------------------------------------------------------------
(* state.rs: private helpers *)

\* DisplayState::prune_active_press_targets
prune_active_press_targets(s) ==
    LET live_ids == {s.items[i].id : i \in DOMAIN s.items}
        kept == {k \in DOMAIN s.active_presses :
                    s.active_presses[k].item_id \in live_ids}
    IN [s EXCEPT !.active_presses = [k \in kept |-> s.active_presses[k]]]

\* a faulty eviction loop, its comparison off by one:
\* `while len > max_items + 1`
evict_oldest_late(list, max_items) ==
    IF Len(list) > max_items + 1
    THEN SubSeq(list, Len(list) - max_items, Len(list))
    ELSE list

\* a faulty eviction loop, which removes from the back: `pop()`
evict_newest(list, max_items) ==
    IF Len(list) > max_items THEN SubSeq(list, 1, max_items) ELSE list

\* the eviction loop of add_item: while len > max_items, remove(0)
evict_oldest(list, max_items) ==
    IF Len(list) > max_items
    THEN SubSeq(list, Len(list) - max_items + 1, Len(list))
    ELSE list

\* a faulty add_item, without its closing prune_active_press_targets
add_item_no_prune(s, kind, t) ==
    LET item == [id |-> s.next_id, kind |-> kind, created_at |-> t,
                 opacity |-> OpacityOne, phase |-> "Active"]
        pushed == Append(s.items, item)
    IN [s |-> [s EXCEPT !.next_id = @ + 1,
                        !.items = evict_oldest(pushed, s.config.max_items)],
        ret |-> item.id]

\* DisplayState::add_item; ret is the id of the new item
add_item(s, kind, t) ==
    LET item == [id |-> s.next_id, kind |-> kind, created_at |-> t,
                 opacity |-> OpacityOne, phase |-> "Active"]
        pushed == Append(s.items, item)
        s1 == [s EXCEPT !.next_id = @ + 1,
                        !.items = evict_oldest(pushed, s.config.max_items)]
    IN [s |-> prune_active_press_targets(s1), ret |-> item.id]

\* a faulty refresh_item, which leaves the creation time as it is
refresh_item_keep_time(item, t) ==
    [item EXCEPT !.opacity = OpacityOne, !.phase = "Active"]

\* DisplayState::refresh_item
refresh_item(item, t) ==
    [item EXCEPT !.created_at = t, !.opacity = OpacityOne, !.phase = "Active"]

-----------------------------------------------------------------------------
(* state.rs: the romaji transliterator.  Kana are written by code point:   *)
(* "U3093" is HIRAGANA LETTER N, "U3063" is HIRAGANA LETTER SMALL TU.      *)

AsciiLower == {"a", "b", "c", "d", "e", "f", "g", "h", "i", "j", "k", "l", "m", "n", "o", "p", "q", "r", "s", "t", "u", "v", "w", "x", "y", "z"}
AsciiUpper == {"A", "B", "C", "D", "E", "F", "G", "H", "I", "J", "K", "L", "M", "N", "O", "P", "Q", "R", "S", "T", "U", "V", "W", "X", "Y", "Z"}

\* char::is_ascii_alphabetic
is_ascii_alphabetic(c) == c \in AsciiLower \cup AsciiUpper

\* char::to_ascii_lowercase
to_ascii_lowercase(c) ==
    CASE c = "A" -> "a"
      [] c = "B" -> "b"
      [] c = "C" -> "c"
      [] c = "D" -> "d"
      [] c = "E" -> "e"
      [] c = "F" -> "f"
      [] c = "G" -> "g"
      [] c = "H" -> "h"
      [] c = "I" -> "i"
      [] c = "J" -> "j"
      [] c = "K" -> "k"
      [] c = "L" -> "l"
      [] c = "M" -> "m"
      [] c = "N" -> "n"
      [] c = "O" -> "o"
      [] c = "P" -> "p"
      [] c = "Q" -> "q"
      [] c = "R" -> "r"
      [] c = "S" -> "s"
      [] c = "T" -> "t"
      [] c = "U" -> "u"
      [] c = "V" -> "v"
      [] c = "W" -> "w"
      [] c = "X" -> "x"
      [] c = "Y" -> "y"
      [] c = "Z" -> "z"
      [] OTHER -> c

\* is_romaji_vowel
is_romaji_vowel(c) == c \in {"a", "i", "u", "e", "o"}

\* is_romaji_consonant
is_romaji_consonant(c) == is_ascii_alphabetic(c) /\ ~is_romaji_vowel(c)

\* romaji_map_3: three-letter table (with the two-letter keys ja, ju, jo the source lists in it)
romaji_map_3(chunk) ==
    CASE chunk = <<"k", "y", "a">> -> Some(<<"U304D", "U3083">>)
      [] chunk = <<"k", "y", "u">> -> Some(<<"U304D", "U3085">>)
      [] chunk = <<"k", "y", "o">> -> Some(<<"U304D", "U3087">>)
      [] chunk = <<"g", "y", "a">> -> Some(<<"U304E", "U3083">>)
      [] chunk = <<"g", "y", "u">> -> Some(<<"U304E", "U3085">>)
      [] chunk = <<"g", "y", "o">> -> Some(<<"U304E", "U3087">>)
      [] chunk \in {<<"s", "h", "a">>, <<"s", "y", "a">>} -> Some(<<"U3057", "U3083">>)
      [] chunk \in {<<"s", "h", "u">>, <<"s", "y", "u">>} -> Some(<<"U3057", "U3085">>)
      [] chunk \in {<<"s", "h", "o">>, <<"s", "y", "o">>} -> Some(<<"U3057", "U3087">>)
      [] chunk \in {<<"c", "h", "a">>, <<"t", "y", "a">>, <<"c", "y", "a">>} -> Some(<<"U3061", "U3083">>)
      [] chunk \in {<<"c", "h", "u">>, <<"t", "y", "u">>, <<"c", "y", "u">>} -> Some(<<"U3061", "U3085">>)
      [] chunk \in {<<"c", "h", "o">>, <<"t", "y", "o">>, <<"c", "y", "o">>} -> Some(<<"U3061", "U3087">>)
      [] chunk = <<"n", "y", "a">> -> Some(<<"U306B", "U3083">>)
      [] chunk = <<"n", "y", "u">> -> Some(<<"U306B", "U3085">>)
      [] chunk = <<"n", "y", "o">> -> Some(<<"U306B", "U3087">>)
      [] chunk = <<"h", "y", "a">> -> Some(<<"U3072", "U3083">>)
      [] chunk = <<"h", "y", "u">> -> Some(<<"U3072", "U3085">>)
      [] chunk = <<"h", "y", "o">> -> Some(<<"U3072", "U3087">>)
      [] chunk = <<"m", "y", "a">> -> Some(<<"U307F", "U3083">>)
      [] chunk = <<"m", "y", "u">> -> Some(<<"U307F", "U3085">>)
      [] chunk = <<"m", "y", "o">> -> Some(<<"U307F", "U3087">>)
      [] chunk = <<"r", "y", "a">> -> Some(<<"U308A", "U3083">>)
      [] chunk = <<"r", "y", "u">> -> Some(<<"U308A", "U3085">>)
      [] chunk = <<"r", "y", "o">> -> Some(<<"U308A", "U3087">>)
      [] chunk = <<"b", "y", "a">> -> Some(<<"U3073", "U3083">>)
      [] chunk = <<"b", "y", "u">> -> Some(<<"U3073", "U3085">>)
      [] chunk = <<"b", "y", "o">> -> Some(<<"U3073", "U3087">>)
      [] chunk = <<"p", "y", "a">> -> Some(<<"U3074", "U3083">>)
      [] chunk = <<"p", "y", "u">> -> Some(<<"U3074", "U3085">>)
      [] chunk = <<"p", "y", "o">> -> Some(<<"U3074", "U3087">>)
      [] chunk \in {<<"j", "a">>, <<"j", "y", "a">>, <<"z", "y", "a">>} -> Some(<<"U3058", "U3083">>)
      [] chunk \in {<<"j", "u">>, <<"j", "y", "u">>, <<"z", "y", "u">>} -> Some(<<"U3058", "U3085">>)
      [] chunk \in {<<"j", "o">>, <<"j", "y", "o">>, <<"z", "y", "o">>} -> Some(<<"U3058", "U3087">>)
      [] chunk = <<"s", "h", "i">> -> Some(<<"U3057">>)
      [] chunk = <<"c", "h", "i">> -> Some(<<"U3061">>)
      [] chunk = <<"t", "s", "u">> -> Some(<<"U3064">>)
      [] chunk = <<"d", "y", "a">> -> Some(<<"U3062", "U3083">>)
      [] chunk = <<"d", "y", "u">> -> Some(<<"U3062", "U3085">>)
      [] chunk = <<"d", "y", "o">> -> Some(<<"U3062", "U3087">>)
      [] OTHER -> None

\* romaji_map_2: two-letter table
romaji_map_2(chunk) ==
    CASE chunk = <<"k", "a">> -> Some(<<"U304B">>)
      [] chunk = <<"k", "i">> -> Some(<<"U304D">>)
      [] chunk = <<"k", "u">> -> Some(<<"U304F">>)
      [] chunk = <<"k", "e">> -> Some(<<"U3051">>)
      [] chunk = <<"k", "o">> -> Some(<<"U3053">>)
      [] chunk = <<"g", "a">> -> Some(<<"U304C">>)
      [] chunk = <<"g", "i">> -> Some(<<"U304E">>)
      [] chunk = <<"g", "u">> -> Some(<<"U3050">>)
      [] chunk = <<"g", "e">> -> Some(<<"U3052">>)
      [] chunk = <<"g", "o">> -> Some(<<"U3054">>)
      [] chunk = <<"s", "a">> -> Some(<<"U3055">>)
      [] chunk = <<"s", "u">> -> Some(<<"U3059">>)
      [] chunk = <<"s", "e">> -> Some(<<"U305B">>)
      [] chunk = <<"s", "o">> -> Some(<<"U305D">>)
      [] chunk = <<"z", "a">> -> Some(<<"U3056">>)
      [] chunk = <<"j", "i">> -> Some(<<"U3058">>)
      [] chunk = <<"z", "u">> -> Some(<<"U305A">>)
      [] chunk = <<"z", "e">> -> Some(<<"U305C">>)
      [] chunk = <<"z", "o">> -> Some(<<"U305E">>)
      [] chunk = <<"t", "a">> -> Some(<<"U305F">>)
      [] chunk = <<"t", "e">> -> Some(<<"U3066">>)
      [] chunk = <<"t", "o">> -> Some(<<"U3068">>)
      [] chunk = <<"d", "a">> -> Some(<<"U3060">>)
      [] chunk = <<"d", "i">> -> Some(<<"U3062">>)
      [] chunk = <<"d", "u">> -> Some(<<"U3065">>)
      [] chunk = <<"d", "e">> -> Some(<<"U3067">>)
      [] chunk = <<"d", "o">> -> Some(<<"U3069">>)
      [] chunk = <<"n", "a">> -> Some(<<"U306A">>)
      [] chunk = <<"n", "i">> -> Some(<<"U306B">>)
      [] chunk = <<"n", "u">> -> Some(<<"U306C">>)
      [] chunk = <<"n", "e">> -> Some(<<"U306D">>)
      [] chunk = <<"n", "o">> -> Some(<<"U306E">>)
      [] chunk = <<"h", "a">> -> Some(<<"U306F">>)
      [] chunk = <<"h", "i">> -> Some(<<"U3072">>)
      [] chunk = <<"f", "u">> -> Some(<<"U3075">>)
      [] chunk = <<"h", "e">> -> Some(<<"U3078">>)
      [] chunk = <<"h", "o">> -> Some(<<"U307B">>)
      [] chunk = <<"b", "a">> -> Some(<<"U3070">>)
      [] chunk = <<"b", "i">> -> Some(<<"U3073">>)
      [] chunk = <<"b", "u">> -> Some(<<"U3076">>)
      [] chunk = <<"b", "e">> -> Some(<<"U3079">>)
      [] chunk = <<"b", "o">> -> Some(<<"U307C">>)
      [] chunk = <<"p", "a">> -> Some(<<"U3071">>)
      [] chunk = <<"p", "i">> -> Some(<<"U3074">>)
      [] chunk = <<"p", "u">> -> Some(<<"U3077">>)
      [] chunk = <<"p", "e">> -> Some(<<"U307A">>)
      [] chunk = <<"p", "o">> -> Some(<<"U307D">>)
      [] chunk = <<"m", "a">> -> Some(<<"U307E">>)
      [] chunk = <<"m", "i">> -> Some(<<"U307F">>)
      [] chunk = <<"m", "u">> -> Some(<<"U3080">>)
      [] chunk = <<"m", "e">> -> Some(<<"U3081">>)
      [] chunk = <<"m", "o">> -> Some(<<"U3082">>)
      [] chunk = <<"y", "a">> -> Some(<<"U3084">>)
      [] chunk = <<"y", "u">> -> Some(<<"U3086">>)
      [] chunk = <<"y", "o">> -> Some(<<"U3088">>)
      [] chunk = <<"r", "a">> -> Some(<<"U3089">>)
      [] chunk = <<"r", "i">> -> Some(<<"U308A">>)
      [] chunk = <<"r", "u">> -> Some(<<"U308B">>)
      [] chunk = <<"r", "e">> -> Some(<<"U308C">>)
      [] chunk = <<"r", "o">> -> Some(<<"U308D">>)
      [] chunk = <<"w", "a">> -> Some(<<"U308F">>)
      [] chunk = <<"w", "o">> -> Some(<<"U3092">>)
      [] chunk = <<"f", "a">> -> Some(<<"U3075", "U3041">>)
      [] chunk = <<"f", "i">> -> Some(<<"U3075", "U3043">>)
      [] chunk = <<"f", "e">> -> Some(<<"U3075", "U3047">>)
      [] chunk = <<"f", "o">> -> Some(<<"U3075", "U3049">>)
      [] chunk = <<"v", "a">> -> Some(<<"U3094", "U3041">>)
      [] chunk = <<"v", "i">> -> Some(<<"U3094", "U3043">>)
      [] chunk = <<"v", "u">> -> Some(<<"U3094">>)
      [] chunk = <<"v", "e">> -> Some(<<"U3094", "U3047">>)
      [] chunk = <<"v", "o">> -> Some(<<"U3094", "U3049">>)
      [] OTHER -> None

\* romaji_map_1: vowels
romaji_map_1(chunk) ==
    CASE chunk = <<"a">> -> Some(<<"U3042">>)
      [] chunk = <<"i">> -> Some(<<"U3044">>)
      [] chunk = <<"u">> -> Some(<<"U3046">>)
      [] chunk = <<"e">> -> Some(<<"U3048">>)
      [] chunk = <<"o">> -> Some(<<"U304A">>)
      [] OTHER -> None


\* the filter of romaji_to_hiragana: ASCII letters only, lower-cased
RECURSIVE romaji_filter(_)
romaji_filter(romaji) ==
    IF romaji = <<>> THEN <<>>
    ELSE IF is_ascii_alphabetic(Head(romaji))
         THEN <<to_ascii_lowercase(Head(romaji))>> \o romaji_filter(Tail(romaji))
         ELSE romaji_filter(Tail(romaji))

\* bytes[a..b) of the source, positions counted from 0
Chunk(bytes, a, b) == SubSeq(bytes, a + 1, b)

\* one iteration of the while loop of romaji_to_hiragana at position i with
\* output out; rule names the branch taken, done is the loop's exit
romaji_step(bytes, i, out) ==
    LET n == Len(bytes)
        cur == bytes[i + 1]
        m3 == IF i + 3 <= n THEN romaji_map_3(Chunk(bytes, i, i + 3)) ELSE None
        m2 == IF i + 2 <= n THEN romaji_map_2(Chunk(bytes, i, i + 2)) ELSE None
        m1 == IF i + 1 <= n THEN romaji_map_1(Chunk(bytes, i, i + 1)) ELSE None
    IN IF i >= n THEN [i |-> i, out |-> out, done |-> TRUE, rule |-> "end"]
       ELSE IF i + 1 < n /\ cur = bytes[i + 2] /\ is_romaji_consonant(cur) /\ cur # "n"
       THEN [i |-> i + 1, out |-> Append(out, "U3063"), done |-> FALSE, rule |-> "sokuon"]
       ELSE IF cur = "n" /\ i + 1 = n
       THEN [i |-> i, out |-> out, done |-> TRUE, rule |-> "pending_n"]
       ELSE IF cur = "n" /\ bytes[i + 2] = "n"
       THEN [i |-> i + 1, out |-> Append(out, "U3093"), done |-> FALSE, rule |-> "nn"]
       ELSE IF cur = "n" /\ ~is_romaji_vowel(bytes[i + 2]) /\ bytes[i + 2] # "y"
       THEN [i |-> i + 1, out |-> Append(out, "U3093"), done |-> FALSE, rule |-> "n_consonant"]
       ELSE IF IsSome(m3)
       THEN [i |-> i + 3, out |-> out \o Unwrap(m3), done |-> FALSE, rule |-> "map3"]
       ELSE IF IsSome(m2)
       THEN [i |-> i + 2, out |-> out \o Unwrap(m2), done |-> FALSE, rule |-> "map2"]
       ELSE IF IsSome(m1)
       THEN [i |-> i + 1, out |-> out \o Unwrap(m1), done |-> FALSE, rule |-> "map1"]
       ELSE IF i + 1 >= n
       THEN [i |-> i, out |-> out, done |-> TRUE, rule |-> "pending"]
       ELSE [i |-> i + 1, out |-> Append(out, cur), done |-> FALSE, rule |-> "passthrough"]

RECURSIVE romaji_loop(_, _, _)

\* a faulty loop, which appends what it should hold back when it stops
romaji_loop_flush(bytes, i, out) ==
    LET st == romaji_step(bytes, i, out)
    IN IF st.done THEN st.out \o SubSeq(bytes, st.i + 1, Len(bytes))
       ELSE romaji_loop(bytes, st.i, st.out)

\* the while loop of romaji_to_hiragana
romaji_loop(bytes, i, out) ==
    LET st == romaji_step(bytes, i, out)
    IN IF st.done THEN st.out ELSE romaji_loop(bytes, st.i, st.out)

\* romaji_to_hiragana
romaji_to_hiragana(romaji) == romaji_loop(romaji_filter(romaji), 0, <<>>)

-----------------------------------------------------------------------------
(* state.rs: RepeatTracker *)

\* a faulty track, which counts on however long ago the last press was
track_no_timeout(rt, key, modifiers, t) ==
    LET same == rt.last_key = Some(key) /\ modifiers = rt.last_modifiers
        count == IF same THEN rt.count + 1 ELSE 1
    IN [rt |-> [rt EXCEPT !.count = count, !.last_key = Some(key),
                          !.last_modifiers = modifiers, !.last_time = t],
        ret |-> count]

\* RepeatTracker::track; ret is the count returned
track(rt, key, modifiers, t) ==
    LET same == /\ rt.last_key = Some(key)
                /\ modifiers = rt.last_modifiers
                /\ duration_since(t, rt.last_time) < rt.timeout
        count == IF same THEN rt.count + 1 ELSE 1
    IN [rt |-> [rt EXCEPT !.count = count, !.last_key = Some(key),
                          !.last_modifiers = modifiers, !.last_time = t],
        ret |-> count]

-----------------------------------------------------------------------------
(* state.rs: keystroke helpers of DisplayState *)

\* a faulty promotion, which leaves the press targets of the promoted item
\* without a group index
remap_item_target_skipped(s, item_id) == s

\* DisplayState::remap_item_target_to_group_first
remap_item_target_to_group_first(s, item_id) ==
    [s EXCEPT !.active_presses =
        [k \in DOMAIN @ |->
            IF @[k].item_id = item_id /\ @[k].group_index = None
            THEN [@[k] EXCEPT !.group_index = Some(0)]
            ELSE @[k]]]

\* a faulty add_keystroke, which lets a full group take one more entry
add_keystroke_overfull(s, lbl, modifiers, action, t) ==
    LET group_timeout_ms == s.config.group_timeout_ms
        max_group == s.config.max_group_size
        new_entry == KeyStrokeEntry(lbl, modifiers, action, 1)
        n == Len(s.items)
        last_item == s.items[n]
        in_window == /\ n > 0
                     /\ last_item.phase = "Active"
                     /\ duration_since(t, last_item.created_at) < group_timeout_ms
        fresh == add_item(s, KeyStroke(lbl, modifiers, action, 1), t)
        new_row == [s |-> fresh.s, ret |-> PressTargetItem(fresh.ret)]
    IN IF group_timeout_ms = 0 THEN new_row
       ELSE IF in_window /\ last_item.kind.tag = "KeyStroke"
       THEN LET k == last_item.kind
                first == KeyStrokeEntry(k.label, k.modifiers, k.action, k.repeat_count)
                promoted == [last_item EXCEPT
                                !.kind = KeyStrokeGroup(<<first, new_entry>>),
                                !.created_at = t]
                s1 == [s EXCEPT !.items[n] = promoted]
            IN [s |-> remap_item_target_to_group_first(s1, last_item.id),
                ret |-> PressTargetGroup(last_item.id, 1)]
       ELSE IF /\ in_window
               /\ last_item.kind.tag = "KeyStrokeGroup"
               /\ Len(last_item.kind.strokes) <= max_group
       THEN LET strokes == Append(last_item.kind.strokes, new_entry)
                grown == [last_item EXCEPT !.kind = KeyStrokeGroup(strokes),
                                           !.created_at = t]
            IN [s |-> [s EXCEPT !.items[n] = grown],
                ret |-> PressTargetGroup(last_item.id, Len(strokes) - 1)]
       ELSE new_row

\* DisplayState::add_keystroke; ret is the PressTarget returned
add_keystroke(s, lbl, modifiers, action, t) ==
    LET group_timeout_ms == s.config.group_timeout_ms
        max_group == s.config.max_group_size
        new_entry == KeyStrokeEntry(lbl, modifiers, action, 1)
        n == Len(s.items)
        last_item == s.items[n]
        in_window == /\ n > 0
                     /\ last_item.phase = "Active"
                     /\ duration_since(t, last_item.created_at) < group_timeout_ms
        fresh == add_item(s, KeyStroke(lbl, modifiers, action, 1), t)
        new_row == [s |-> fresh.s, ret |-> PressTargetItem(fresh.ret)]
    IN IF group_timeout_ms = 0 THEN new_row
       ELSE IF in_window /\ last_item.kind.tag = "KeyStroke"
       THEN LET k == last_item.kind
                first == KeyStrokeEntry(k.label, k.modifiers, k.action, k.repeat_count)
                promoted == [last_item EXCEPT
                                !.kind = KeyStrokeGroup(<<first, new_entry>>),
                                !.created_at = t]
                s1 == [s EXCEPT !.items[n] = promoted]
            IN [s |-> remap_item_target_to_group_first(s1, last_item.id),
                ret |-> PressTargetGroup(last_item.id, 1)]
       ELSE IF /\ in_window
               /\ last_item.kind.tag = "KeyStrokeGroup"
               /\ Len(last_item.kind.strokes) < max_group
       THEN LET strokes == Append(last_item.kind.strokes, new_entry)
                grown == [last_item EXCEPT !.kind = KeyStrokeGroup(strokes),
                                           !.created_at = t]
            IN [s |-> [s EXCEPT !.items[n] = grown],
                ret |-> PressTargetGroup(last_item.id, Len(strokes) - 1)]
       ELSE new_row

\* the match of update_repeat_count: whether an item takes the new count
repeat_candidate(item, force_down_state) ==
    CASE item.kind.tag = "KeyStroke" ->
            item.kind.action = "Down" \/ force_down_state
      [] item.kind.tag = "KeyStrokeGroup" ->
            /\ Len(item.kind.strokes) > 0
            /\ \/ item.kind.strokes[Len(item.kind.strokes)].action = "Down"
               \/ force_down_state
      [] OTHER -> FALSE

\* DisplayState::update_repeat_count; ret is Option<PressTarget>
update_repeat_count(s, count, t, force_down_state) ==
    LET hits == {i \in DOMAIN s.items : repeat_candidate(s.items[i], force_down_state)}
    IN IF hits = {} THEN [s |-> s, ret |-> None]
       ELSE LET j == CHOOSE i \in hits : \A h \in hits : h <= i
                item == s.items[j]
                m == Len(item.kind.strokes)
                kind == IF item.kind.tag = "KeyStroke"
                        THEN [item.kind EXCEPT
                                !.action = IF force_down_state THEN "Down" ELSE @,
                                !.repeat_count = count]
                        ELSE [item.kind EXCEPT
                                !.strokes[m].action =
                                    IF force_down_state THEN "Down" ELSE @,
                                !.strokes[m].repeat_count = count]
                target == IF item.kind.tag = "KeyStroke"
                          THEN PressTargetItem(item.id)
                          ELSE PressTargetGroup(item.id, m - 1)
            IN [s |-> [s EXCEPT !.items[j] =
                                    refresh_item([item EXCEPT !.kind = kind], t)],
                ret |-> Some(target)]

\* a faulty key release, which forgets the press without touching its item
apply_key_up_forget(s, ke, t) ==
    [s EXCEPT !.active_presses = MapRemove(@, PressKey(ke))]

\* DisplayState::apply_key_up_to_existing
apply_key_up_to_existing(s, ke, t) ==
    LET pk == PressKey(ke)
    IN IF pk \notin DOMAIN s.active_presses THEN s
       ELSE LET target == s.active_presses[pk]
                s1 == [s EXCEPT !.active_presses = MapRemove(@, pk)]
                found == {i \in DOMAIN s.items : s.items[i].id = target.item_id}
            IN IF found = {} THEN s1
               ELSE LET j == CHOOSE i \in found : \A h \in found : i <= h
                        item == s.items[j]
                        idx == Unwrap(target.group_index)
                    IN CASE item.kind.tag = "KeyStroke" ->
                              [s1 EXCEPT !.items[j] =
                                  refresh_item([item EXCEPT !.kind.action = "Up"], t)]
                         [] /\ item.kind.tag = "KeyStrokeGroup"
                            /\ IsSome(target.group_index)
                            /\ idx < Len(item.kind.strokes) ->
                              [s1 EXCEPT !.items[j] =
                                  refresh_item(
                                    [item EXCEPT !.kind.strokes[idx + 1].action = "Up"], t)]
                         [] OTHER -> s1

\* a faulty shortcut_matches, which accepts modifiers held beyond those the
\* definition names
shortcut_matches_subset(keys_str, ke) ==
    LET parts == keys_str
        others == {i \in DOMAIN parts : parts[i] \notin {"Ctrl", "Shift", "Alt", "Win"}}
        key_part == IF others = {} THEN None
                    ELSE Some(parts[CHOOSE i \in others : \A h \in others : h <= i])
    IN /\ Len(parts) # 0
       /\ (\E i \in DOMAIN parts : parts[i] = "Ctrl") => ke.modifiers.ctrl
       /\ (\E i \in DOMAIN parts : parts[i] = "Shift") => ke.modifiers.shift
       /\ (\E i \in DOMAIN parts : parts[i] = "Alt") => ke.modifiers.alt
       /\ (\E i \in DOMAIN parts : parts[i] = "Win") => ke.modifiers.win
       /\ key_part # None
       /\ label(ke.key) = Unwrap(key_part)

\* shortcut_matches; keys_str is the definition's string given as its parts
\* between the '+' signs ("Ctrl+C" is <<"Ctrl", "C">>, "" is <<"">>)
shortcut_matches(keys_str, ke) ==
    LET parts == keys_str
        others == {i \in DOMAIN parts : parts[i] \notin {"Ctrl", "Shift", "Alt", "Win"}}
        need_ctrl == \E i \in DOMAIN parts : parts[i] = "Ctrl"
        need_shift == \E i \in DOMAIN parts : parts[i] = "Shift"
        need_alt == \E i \in DOMAIN parts : parts[i] = "Alt"
        need_win == \E i \in DOMAIN parts : parts[i] = "Win"
        key_part == IF others = {} THEN None
                    ELSE Some(parts[CHOOSE i \in others : \A h \in others : h <= i])
    IN IF Len(parts) = 0 THEN FALSE
       ELSE IF \/ ke.modifiers.ctrl # need_ctrl
               \/ ke.modifiers.shift # need_shift
               \/ ke.modifiers.alt # need_alt
               \/ ke.modifiers.win # need_win
       THEN FALSE
       ELSE IF key_part = None THEN FALSE
       ELSE label(ke.key) = Unwrap(key_part)

\* DisplayState::match_shortcut; Option<ShortcutDef>
match_shortcut(s, ke) ==
    LET table == s.config.shortcuts
        hits == {i \in DOMAIN table : shortcut_matches(table[i].keys, ke)}
    IN IF ke.action # "Down" \/ ~any(ke.modifiers) THEN None
       ELSE IF hits = {} THEN None
       ELSE Some(table[CHOOSE i \in hits : \A h \in hits : i <= h])

\* ke.key.0 & 0xFF
low_byte(key) == key % 256

\* a faulty should_suppress_during_ime_composition, which does not look at the
\* modifiers held
should_suppress_any_modifier(ke) ==
    LET vk == low_byte(ke.key)
    IN (48 <= vk /\ vk <= 90) \/ (186 <= vk /\ vk <= 226)

\* should_suppress_during_ime_composition
should_suppress_during_ime_composition(ke) ==
    LET vk == low_byte(ke.key)
    IN IF ke.modifiers.ctrl \/ ke.modifiers.alt \/ ke.modifiers.win THEN FALSE
       ELSE (48 <= vk /\ vk <= 90) \/ (186 <= vk /\ vk <= 226)

-----------------------------------------------------------------------------
(* state.rs: IME handling of DisplayState *)

\* items.retain(not ImeComposition) followed by prune_active_press_targets
drop_ime_items(s) ==
    prune_active_press_targets([s EXCEPT !.items = SelectSeq(@, NotIme)])

\* a search that never finds the ImeComposition item
first_ime_index_none(list) == 0

\* the in-place update of the first ImeComposition item (iter_mut().any)
first_ime_index(list) ==
    LET hits == {i \in DOMAIN list : IsIme(list[i])}
    IN IF hits = {} THEN 0 ELSE CHOOSE i \in hits : \A h \in hits : i <= h

\* a faulty handle_ime_toggle_key, which inverts the flag on every Down and
\* leaves the composition as it is when the flag goes off
handle_ime_toggle_key_flag_only(s, ke) ==
    LET vk == low_byte(ke.key)
    IN IF vk \notin {VK_KANA, VK_IME_ON, VK_KANJI, VK_IME_OFF} /\ ke.scan_code # 41
       THEN [s |-> s, ret |-> FALSE]
       ELSE IF ke.action # "Down" THEN [s |-> s, ret |-> TRUE]
       ELSE [s |-> [s EXCEPT !.ime_fallback_enabled = ~@], ret |-> TRUE]

\* DisplayState::handle_ime_toggle_key; ret is the bool returned
handle_ime_toggle_key(s, ke) ==
    LET vk == low_byte(ke.key)
        is_hankaku_zenkaku ==
            ke.scan_code = 41 \/ (vk = VK_OEM_3 /\ ke.scan_code = 41)
        enabled == CASE vk = VK_IME_ON -> TRUE
                     [] vk = VK_IME_OFF -> FALSE
                     [] vk \in {VK_KANA, VK_KANJI} -> ~s.ime_fallback_enabled
                     [] vk = VK_OEM_3 /\ is_hankaku_zenkaku -> ~s.ime_fallback_enabled
                     [] is_hankaku_zenkaku -> ~s.ime_fallback_enabled
                     [] OTHER -> s.ime_fallback_enabled
        s1 == [s EXCEPT !.ime_fallback_enabled = enabled]
    IN IF vk \notin {VK_KANA, VK_IME_ON, VK_KANJI, VK_IME_OFF} /\ ~is_hankaku_zenkaku
       THEN [s |-> s, ret |-> FALSE]
       ELSE IF ke.action # "Down" THEN [s |-> s, ret |-> TRUE]
       ELSE IF ~enabled
       THEN [s |-> drop_ime_items([s1 EXCEPT !.ime_composing = FALSE,
                                            !.ime_native_composing = FALSE,
                                            !.ime_fallback_romaji = <<>>]),
             ret |-> TRUE]
       ELSE [s |-> s1, ret |-> TRUE]

\* a faulty apply_ime_fallback_text, which leaves the composition item as it
\* is when the buffer transliterates to nothing
apply_ime_fallback_text_stale(s, t) ==
    LET text == romaji_to_hiragana(s.ime_fallback_romaji)
        j == first_ime_index(s.items)
        s1 == [s EXCEPT !.ime_composing = TRUE, !.ime_native_composing = FALSE]
    IN IF text = <<>>
       THEN [s EXCEPT !.ime_composing = FALSE, !.ime_native_composing = FALSE]
       ELSE IF j > 0
       THEN [s1 EXCEPT !.items[j] =
                [@ EXCEPT !.kind = ImeComposition(text), !.phase = "Active",
                          !.opacity = OpacityOne, !.created_at = t]]
       ELSE add_item(s1, ImeComposition(text), t).s

\* DisplayState::apply_ime_fallback_text
apply_ime_fallback_text(s, t) ==
    LET text == romaji_to_hiragana(s.ime_fallback_romaji)
        j == first_ime_index(s.items)
        s1 == [s EXCEPT !.ime_composing = TRUE, !.ime_native_composing = FALSE]
    IN IF text = <<>>
       THEN drop_ime_items([s EXCEPT !.ime_composing = FALSE,
                                     !.ime_native_composing = FALSE])
       ELSE IF j > 0
       THEN [s1 EXCEPT !.items[j] =
                [@ EXCEPT !.kind = ImeComposition(text), !.phase = "Active",
                          !.opacity = OpacityOne, !.created_at = t]]
       ELSE add_item(s1, ImeComposition(text), t).s

\* (vk as u8 as char) for the letter keys
vk_char(vk) ==
    CASE vk = 65 -> "A"
      [] vk = 66 -> "B"
      [] vk = 67 -> "C"
      [] vk = 68 -> "D"
      [] vk = 69 -> "E"
      [] vk = 70 -> "F"
      [] vk = 71 -> "G"
      [] vk = 72 -> "H"
      [] vk = 73 -> "I"
      [] vk = 74 -> "J"
      [] vk = 75 -> "K"
      [] vk = 76 -> "L"
      [] vk = 77 -> "M"
      [] vk = 78 -> "N"
      [] vk = 79 -> "O"
      [] vk = 80 -> "P"
      [] vk = 81 -> "Q"
      [] vk = 82 -> "R"
      [] vk = 83 -> "S"
      [] vk = 84 -> "T"
      [] vk = 85 -> "U"
      [] vk = 86 -> "V"
      [] vk = 87 -> "W"
      [] vk = 88 -> "X"
      [] vk = 89 -> "Y"
      [] vk = 90 -> "Z"
      [] OTHER -> "?"

\* DisplayState::handle_ime_fallback_key; ret is the bool returned
handle_ime_fallback_key(s, ke) ==
    LET vk == low_byte(ke.key)
        is_letter == 65 <= vk /\ vk <= 90
        is_control_key == vk \in {8, 13, 27, 9, 32}
        c == to_ascii_lowercase(vk_char(vk))
    IN IF \/ ~s.config.show_ime_composition
          \/ ~s.ime_fallback_enabled
          \/ s.ime_native_composing
          \/ ke.modifiers.ctrl
          \/ ke.modifiers.alt
          \/ ke.modifiers.win
       THEN [s |-> s, ret |-> FALSE]
       ELSE IF ke.action = "Up" THEN [s |-> s, ret |-> is_letter \/ is_control_key]
       ELSE IF is_letter
       THEN [s |-> apply_ime_fallback_text(
                     [s EXCEPT !.ime_fallback_romaji = Append(@, c)], ke.timestamp),
             ret |-> TRUE]
       ELSE IF vk = 8
       THEN [s |-> apply_ime_fallback_text(
                     [s EXCEPT !.ime_fallback_romaji =
                         IF @ = <<>> THEN @ ELSE SubSeq(@, 1, Len(@) - 1)],
                     ke.timestamp),
             ret |-> TRUE]
       ELSE IF vk \in {13, 27, 9, 32}
       THEN [s |-> drop_ime_items([s EXCEPT !.ime_fallback_romaji = <<>>,
                                            !.ime_composing = FALSE]),
             ret |-> TRUE]
       ELSE [s |-> s, ret |-> FALSE]

-----------------------------------------------------------------------------
(* state.rs: the public operations of DisplayState *)

\* the Down arm of process_key_event after the modifier and shortcut checks:
\* repeat accounting, add_keystroke and the press-target bookkeeping
key_down_display(s, ke, display_label, t) ==
    LET tracked == track(s.repeat_tracker, ke.key, ke.modifiers, t)
        s1 == [s EXCEPT !.repeat_tracker = tracked.rt]
        force_down == s.config.key_transition_mode = "SingleCell"
        bumped == update_repeat_count(s1, tracked.ret, t, force_down)
        res == IF s.config.show_repeat_count
               THEN IF tracked.ret > 1
                    THEN IF IsSome(bumped.ret)
                         THEN [s |-> bumped.s, ret |-> Unwrap(bumped.ret)]
                         ELSE add_keystroke(s1, display_label, ke.modifiers, "Down", t)
                    ELSE add_keystroke(s1, display_label, ke.modifiers, "Down", t)
               ELSE add_keystroke(s, display_label, ke.modifiers, "Down", t)
    IN IF s.config.key_transition_mode = "SingleCell"
       THEN [s |-> [res.s EXCEPT !.active_presses =
                                    MapInsert(@, PressKey(ke), res.ret)],
             target |-> Some(res.ret)]
       ELSE [s |-> res.s, target |-> Some(res.ret)]

\* DisplayState::process_key_event; path names the return taken and target is
\* the PressTarget of the keystroke shown: the local `target` of the Down arm,
\* or the value add_keystroke returns to the SplitCells Up arm
process_key_event(s, ke) ==
    LET full_label == label(ke.key)
        ignored == \E i \in DOMAIN s.config.ignored_keys :
                        eq_ignore_ascii_case(s.config.ignored_keys[i], full_label)
        toggle == handle_ime_toggle_key(s, ke)
        fallback == handle_ime_fallback_key(s, ke)
        t == ke.timestamp
        display_label == IF s.config.distinguish_numpad
                         THEN label(ke.key) ELSE label_plain(ke.key)
        shortcut == match_shortcut(s, ke)
        down == key_down_display(s, ke, display_label, t)
        split_up == add_keystroke(
                        [s EXCEPT !.active_presses = MapRemove(@, PressKey(ke))],
                        display_label, ke.modifiers, "Up", t)
    IN IF ignored THEN [s |-> s, path |-> "ignored", target |-> None]
       ELSE IF toggle.ret THEN [s |-> toggle.s, path |-> "ime_toggle", target |-> None]
       ELSE IF fallback.ret
       THEN [s |-> fallback.s, path |-> "ime_fallback", target |-> None]
       ELSE IF s.ime_composing /\ should_suppress_during_ime_composition(ke)
       THEN [s |-> s, path |-> "suppressed", target |-> None]
       ELSE IF is_modifier(ke.key) THEN [s |-> s, path |-> "modifier", target |-> None]
       ELSE IF ke.action = "Down"
       THEN IF IsSome(shortcut)
            THEN [s |-> [add_item(s, Shortcut(Unwrap(shortcut).keys,
                                             Unwrap(shortcut).label), t).s
                            EXCEPT !.active_presses = MapRemove(@, PressKey(ke))],
                  path |-> "shortcut", target |-> None]
            ELSE [s |-> down.s, path |-> "down", target |-> down.target]
       ELSE IF s.config.key_transition_mode = "SingleCell"
       THEN [s |-> apply_key_up_to_existing(s, ke, t), path |-> "up", target |-> None]
       ELSE [s |-> split_up.s, path |-> "up", target |-> Some(split_up.ret)]

\* DisplayState::process_mouse_event
process_mouse_event(s, me) ==
    LET lbl == CASE me.button = "Left" -> "LClick"
                 [] me.button = "Right" -> "RClick"
                 [] me.button = "Middle" -> "MClick"
                 [] me.button = "X1" -> "X1Click"
                 [] me.button = "X2" -> "X2Click"
        action_label == IF me.action = "Down" THEN lbl
                        ELSE IF me.delta > 0 THEN "WheelUp" ELSE "WheelDown"
    IN IF me.action = "Up" THEN s
       ELSE add_item(s, KeyStroke(action_label, NoMods, "Down", 1), me.timestamp).s

\* a faulty CompositionEnd arm, which ends the composition whatever path it
\* came from
composition_end_always(s) ==
    drop_ime_items([s EXCEPT !.ime_composing = FALSE,
                             !.ime_native_composing = FALSE,
                             !.ime_fallback_romaji = <<>>])

\* the CompositionEnd arm of process_ime_event
composition_end(s) ==
    IF s.ime_native_composing
    THEN drop_ime_items([s EXCEPT !.ime_composing = FALSE,
                                  !.ime_native_composing = FALSE,
                                  !.ime_fallback_romaji = <<>>])
    ELSE IF ~s.ime_fallback_enabled
    THEN drop_ime_items([s EXCEPT !.ime_composing = FALSE])
    ELSE s

\* DisplayState::process_ime_event
process_ime_event(s, ie) ==
    LET j == first_ime_index(s.items)
        s1 == [s EXCEPT !.ime_composing = TRUE, !.ime_native_composing = TRUE,
                        !.ime_fallback_romaji = <<>>]
    IN IF ~s.config.show_ime_composition THEN s
       ELSE CASE ie.kind = "StateChanged" ->
                    IF ~ie.enabled
                    THEN drop_ime_items([s EXCEPT !.ime_fallback_enabled = FALSE,
                                                  !.ime_composing = FALSE,
                                                  !.ime_native_composing = FALSE,
                                                  !.ime_fallback_romaji = <<>>])
                    ELSE s
              [] ie.kind = "CompositionUpdate" ->
                    IF j > 0
                    THEN [s1 EXCEPT !.items[j] =
                            [@ EXCEPT !.kind = ImeComposition(ie.text),
                                      !.phase = "Active", !.opacity = OpacityOne]]
                    ELSE add_item(s1, ImeComposition(ie.text), ie.timestamp).s
              [] ie.kind = "CompositionEnd" -> composition_end(s)

\* s.chars().take(max).collect()
take_chars(text, max) == SubSeq(text, 1, Min(max, Len(text)))

\* the length of a text in UTF-8 bytes: three for a kana, one for ASCII
RECURSIVE utf8_len(_)
utf8_len(text) ==
    IF text = <<>> THEN 0
    ELSE (IF Head(text) \in {"U3042", "U3063", "U3093"} THEN 3 ELSE 1)
            + utf8_len(Tail(text))

\* a faulty preview, which measures the text in bytes
clipboard_text_bytes(content, max) ==
    IF content.tag = "Text" /\ utf8_len(content.text) > max
    THEN take_chars(content.text, max) \o <<".", ".", ".">>
    ELSE content.text

\* the text a ClipboardPreview shows (the match of process_clipboard_event)
clipboard_text(content, max) ==
    CASE content.tag = "Text" ->
            IF Len(content.text) > max
            THEN take_chars(content.text, max) \o <<".", ".", ".">>
            ELSE content.text
      [] content.tag = "Image" ->
            <<"[", "I", "m", "a", "g", "e", " ">> \o content.width
                \o <<"x">> \o content.height \o <<"]">>
      [] OTHER -> <<"[", "C", "l", "i", "p", "b", "o", "a", "r", "d", "]">>

\* DisplayState::process_clipboard_event
process_clipboard_event(s, ce) ==
    IF ~s.config.show_clipboard THEN s
    ELSE add_item(s,
            ClipboardPreview(clipboard_text(ce.content, s.config.clipboard_max_chars)),
            ce.timestamp).s

\* DisplayState::process_lock_event
process_lock_event(s, ls) ==
    IF ~s.config.show_lock_indicators THEN s
    ELSE add_item(s, LockIndicator(ls.caps_lock, ls.num_lock, ls.scroll_lock),
                  ls.timestamp).s

\* a faulty fade, whose progress runs over the display time as well
fade_opacity_early(cfg, created_at, t) ==
    LET num == Min(duration_since(t, created_at), cfg.fade_duration_ms)
        inv == cfg.fade_duration_ms - num
    IN IF cfg.fade_out_curve = "Linear"
       THEN Frac(inv, cfg.fade_duration_ms)
       ELSE Frac(inv * inv, cfg.fade_duration_ms * cfg.fade_duration_ms)

\* the opacity tick gives a FadingOut item (the FadingOut arm of tick)
fade_opacity(cfg, created_at, t) ==
    LET fade_start == created_at + cfg.display_duration_ms
        fade_elapsed == duration_since(t, fade_start)
        \* progress = clamp(fade_elapsed / fade_dur, 0, 1) = num / fade_dur
        num == Min(fade_elapsed, cfg.fade_duration_ms)
        inv == cfg.fade_duration_ms - num
    IN IF cfg.fade_out_curve = "Linear"
       THEN Frac(inv, cfg.fade_duration_ms)
       ELSE Frac(inv * inv, cfg.fade_duration_ms * cfg.fade_duration_ms)

\* a faulty match, which keeps an item Active until more than the display
\* duration has passed
tick_item_late(cfg, item, t) ==
    CASE item.phase = "Active" ->
            IF duration_since(t, item.created_at) > cfg.display_duration_ms
            THEN [item EXCEPT !.phase = "FadingOut"]
            ELSE item
      [] item.phase = "FadingOut" ->
            LET opacity == fade_opacity(cfg, item.created_at, t)
            IN [item EXCEPT !.opacity = opacity,
                            !.phase = IF FracLeq(opacity, OpacityZero)
                                      THEN "Expired" ELSE @]
      [] OTHER -> item

\* the per-item match of tick
tick_item(cfg, item, t) ==
    CASE item.phase = "Active" ->
            IF duration_since(t, item.created_at) >= cfg.display_duration_ms
            THEN [item EXCEPT !.phase = "FadingOut"]
            ELSE item
      [] item.phase = "FadingOut" ->
            LET opacity == fade_opacity(cfg, item.created_at, t)
            IN [item EXCEPT !.opacity = opacity,
                            !.phase = IF FracLeq(opacity, OpacityZero)
                                      THEN "Expired" ELSE @]
      [] OTHER -> item

NotExpired(item) == item.phase # "Expired"

\* a faulty tick, without the retain of the items that are not Expired
tick_keep_expired(s, t) ==
    [s EXCEPT !.items = [i \in DOMAIN s.items |-> tick_item(s.config, s.items[i], t)]]

\* DisplayState::tick
tick(s, t) ==
    LET stepped == [i \in DOMAIN s.items |-> tick_item(s.config, s.items[i], t)]
    IN prune_active_press_targets(
          [s EXCEPT !.items = SelectSeq(stepped, NotExpired)])

\* a faulty clear, which also starts the item ids again at 0
clear_reset_ids(s) ==
    [s EXCEPT !.items = <<>>, !.active_presses = EmptyMap, !.next_id = 0,
              !.ime_composing = FALSE, !.ime_native_composing = FALSE,
              !.ime_fallback_romaji = <<>>]

\* a faulty clear, which leaves the press-target map as it is
clear_keep_presses(s) ==
    [s EXCEPT !.items = <<>>,
              !.ime_composing = FALSE, !.ime_native_composing = FALSE,
              !.ime_fallback_romaji = <<>>]

\* DisplayState::clear
clear(s) ==
    [s EXCEPT !.items = <<>>, !.active_presses = EmptyMap,
              !.ime_composing = FALSE, !.ime_native_composing = FALSE,
              !.ime_fallback_romaji = <<>>]

\* a faulty update_config, which keeps the press-target map over a change of
\* the transition mode
update_config_keep_presses(s, cfg) ==
    prune_active_press_targets(
        [s EXCEPT !.config = cfg, !.repeat_tracker.timeout = cfg.repeat_timeout_ms])

\* DisplayState::update_config
update_config(s, cfg) ==
    LET s1 == IF s.config.key_transition_mode # cfg.key_transition_mode
              THEN [s EXCEPT !.active_presses = EmptyMap] ELSE s
    IN prune_active_press_targets(
          [s1 EXCEPT !.config = cfg,
                     !.repeat_tracker.timeout = cfg.repeat_timeout_ms])

\* DisplayState::active_items
active_items == items

-----------------------------------------------------------------------------
(* config.rs: the configuration the engine holds, durations in time units *)

\* AppConfig::default (the fields the engine reads); one time unit is 100 ms
\* here except for the display duration, shortened to keep the clock small
DefaultConfig ==
    [max_items |-> 2,
     display_duration_ms |-> 2,
     fade_duration_ms |-> 2,
     fade_out_curve |-> "Linear",
     key_transition_mode |-> "SingleCell",
     show_repeat_count |-> TRUE,
     distinguish_numpad |-> TRUE,
     show_ime_composition |-> TRUE,
     show_clipboard |-> TRUE,
     clipboard_max_chars |-> 2,
     show_lock_indicators |-> TRUE,
     repeat_timeout_ms |-> 2,
     group_timeout_ms |-> 2,
     max_group_size |-> 2,
     ignored_keys |-> <<>>,
     shortcuts |-> << [keys |-> <<"Ctrl", "C">>, label |-> "Copy"],
                      [keys |-> <<"Ctrl", "A">>, label |-> "SelectAll"] >>]

\* AppConfig::validate, on the fields the engine reads
validate(cfg) ==
    /\ cfg.max_items > 0
    /\ cfg.display_duration_ms > 0
    /\ cfg.fade_duration_ms > 0
    /\ cfg.clipboard_max_chars > 0
    /\ cfg.repeat_timeout_ms > 0
    /\ cfg.max_group_size > 0

-----------------------------------------------------------------------------
(* The inputs *)

\* physical keys: virtual key, scan code, numpad flag
PhysKey(key, scan_code, is_numpad) ==
    [key |-> key, scan_code |-> scan_code, is_numpad |-> is_numpad]
PK_A == PhysKey(KEY_A, 30, FALSE)
PK_B == PhysKey(KEY_B, 48, FALSE)
PK_C == PhysKey(KEY_C, 46, FALSE)
PK_D == PhysKey(KEY_D, 32, FALSE)
PK_K == PhysKey(KEY_K, 37, FALSE)
PK_N == PhysKey(KEY_N, 49, FALSE)
PK_1 == PhysKey(KEY_1, 2, FALSE)
PK_F1 == PhysKey(F1, 59, FALSE)
PK_ENTER == PhysKey(ENTER, 28, FALSE)
PK_NUMENTER == PhysKey(NUMPAD_ENTER, 28, TRUE)
PK_BS == PhysKey(BACKSPACE, 14, FALSE)
PK_LCTRL == PhysKey(L_CTRL, 29, FALSE)
PK_KANJI == PhysKey(VK_KANJI, 41, FALSE)
PK_IME_OFF == PhysKey(VK_IME_OFF, 0, FALSE)

KeyEventOf(pk, action, modifiers, t) ==
    KeyEvent(pk.key, action, modifiers, pk.is_numpad, pk.scan_code, t)

KanaA == <<"U3042">>

MixKeys == {PK_A, PK_KANJI}
MixMods == {NoMods, CtrlMods}
DownUp == {"Down", "Up"}
MixMouse == {[button |-> "Left", action |-> "Down", delta |-> 0]}
MixIme == {[kind |-> "StateChanged", enabled |-> FALSE, text |-> <<>>],
           [kind |-> "CompositionUpdate", enabled |-> FALSE, text |-> KanaA],
           [kind |-> "CompositionEnd", enabled |-> FALSE, text |-> <<>>]}
MixClipboard == {[tag |-> "Text", text |-> <<"a", "b", "c">>]}
MixBase == [DefaultConfig EXCEPT !.display_duration_ms = 1, !.fade_duration_ms = 1]
MixConfigs ==
    {MixBase,
     [MixBase EXCEPT !.max_items = 1, !.group_timeout_ms = 0],
     [MixBase EXCEPT !.key_transition_mode = "SplitCells"]}

-----------------------------------------------------------------------------
(* The state machine *)

Install(s) ==
    /\ items' = s.items
    /\ repeat_tracker' = s.repeat_tracker
    /\ config' = s.config
    /\ next_id' = s.next_id
    /\ active_presses' = s.active_presses
    /\ ime_composing' = s.ime_composing
    /\ ime_native_composing' = s.ime_native_composing
    /\ ime_fallback_enabled' = s.ime_fallback_enabled
    /\ ime_fallback_romaji' = s.ime_fallback_romaji

\* a call of a public operation: its argument, the return path taken and the
\* press target computed (key events), and the engine the call started from
Call(op, ev, path, target) ==
    [op |-> op, ev |-> ev, path |-> path, target |-> target, before |-> Self]
NoCall == [op |-> "new", ev |-> None, path |-> "", target |-> None, before |-> None]

Holds(s) ==
    /\ items = s.items
    /\ repeat_tracker = s.repeat_tracker
    /\ config = s.config
    /\ next_id = s.next_id
    /\ active_presses = s.active_presses
    /\ ime_composing = s.ime_composing
    /\ ime_native_composing = s.ime_native_composing
    /\ ime_fallback_enabled = s.ime_fallback_enabled
    /\ ime_fallback_romaji = s.ime_fallback_romaji

\* the engine after DisplayState::new(config) at time 0
InitWith(configs) ==
    /\ \E cfg \in configs : validate(cfg) /\ Holds(DisplayState_new(cfg, 0))
    /\ now = 0
    /\ last = NoCall
    /\ hist = <<>>
    /\ tr = None

\* whether the list of calls has room for another
HistFits(rec) == rec = "hist" => Len(hist) < MaxHist

\* whether another call fits the bounds of the model: the list of calls
\* bounds the specifications that keep it, the counters bound the others
InBounds(rec) ==
    IF rec = "hist" THEN HistFits(rec)
    ELSE /\ next_id < MaxId
         /\ Len(ime_fallback_romaji) < MaxBuf
         /\ repeat_tracker.count < MaxRepeat

\* what a specification records of the calls made: nothing ("off"), the
\* last call ("last"), the last call and the one before it ("prev"), or the
\* last call and the list of calls so far ("hist")
Record(rec, call) ==
    /\ last' = IF rec = "off" THEN last ELSE call
    /\ hist' = CASE rec = "hist" -> Append(hist, [call EXCEPT !.before = None])
               [] rec = "prev" -> <<[last EXCEPT !.before = None]>>
               [] OTHER -> hist

\* process_event(InputEvent::Key)
KeyStep(keys, actions, mods, rec) ==
    \E pk \in keys, a \in actions, m \in mods :
        LET ke == KeyEventOf(pk, a, m, now)
            r == process_key_event(Self, ke)
        IN /\ InBounds(rec)
           /\ Install(r.s)
           /\ Record(rec, Call("key", ke, r.path, r.target))
           /\ UNCHANGED <<now, tr>>

\* process_event(InputEvent::Mouse)
MouseStep(events, rec) ==
    \E e \in events :
        LET me == [button |-> e.button, action |-> e.action, delta |-> e.delta,
                   timestamp |-> now]
        IN /\ InBounds(rec)
           /\ Install(process_mouse_event(Self, me))
           /\ Record(rec, Call("mouse", me, "", None))
           /\ UNCHANGED <<now, tr>>

\* process_event(InputEvent::Ime)
ImeStep(events, rec) ==
    \E e \in events :
        LET ie == [kind |-> e.kind, enabled |-> e.enabled, text |-> e.text,
                   timestamp |-> now]
        IN /\ InBounds(rec)
           /\ Install(process_ime_event(Self, ie))
           /\ Record(rec, Call("ime", ie, "", None))
           /\ UNCHANGED <<now, tr>>

\* process_event(InputEvent::Clipboard)
ClipboardStep(contents, rec) ==
    \E c \in contents :
        LET ce == [content |-> c, timestamp |-> now]
        IN /\ InBounds(rec)
           /\ Install(process_clipboard_event(Self, ce))
           /\ Record(rec, Call("clipboard", ce, "", None))
           /\ UNCHANGED <<now, tr>>

\* process_event(InputEvent::LockState)
LockStep(rec) ==
    \E caps \in {TRUE} :
        LET ls == [caps_lock |-> caps, num_lock |-> TRUE, scroll_lock |-> FALSE,
                   timestamp |-> now]
        IN /\ InBounds(rec)
           /\ Install(process_lock_event(Self, ls))
           /\ Record(rec, Call("lock", ls, "", None))
           /\ UNCHANGED <<now, tr>>

\* tick(Instant::now())
TickStep(rec) ==
    /\ HistFits(rec)
    /\ Install(tick(Self, now))
    /\ Record(rec, Call("tick", now, "", None))
    /\ UNCHANGED <<now, tr>>

\* clear()
ClearStep(rec) ==
    /\ HistFits(rec)
    /\ Install(clear(Self))
    /\ Record(rec, Call("clear", DOMAIN active_presses, "", None))
    /\ UNCHANGED <<now, tr>>

\* update_config(cfg)
UpdateConfigStep(configs, rec) ==
    \E cfg \in configs :
        /\ HistFits(rec)
        /\ validate(cfg)
        /\ Install(update_config(Self, cfg))
        /\ Record(rec, Call("update_config", cfg, "", None))
        /\ UNCHANGED <<now, tr>>

\* time passes, up to a limit
AdvanceTo(limit) ==
    /\ now < limit
    /\ now' = now + 1
    /\ UNCHANGED <<engine, last, hist, tr>>

-----------------------------------------------------------------------------
(* The engine under any mix of process_event and tick calls, with the      *)
(* configuration it was constructed with                                   *)

Init == InitWith(MixConfigs)

Key == KeyStep(MixKeys, DownUp, MixMods, "off")
Mouse == MouseStep(MixMouse, "off")
Ime == ImeStep(MixIme, "off")
Clipboard == ClipboardStep(MixClipboard, "off")
LockState == LockStep("off")
Tick == TickStep("off")
Clear == ClearStep("off")
Advance == AdvanceTo(MaxTime)

Next == Key \/ Mouse \/ Ime \/ Clipboard \/ LockState \/ Tick \/ Advance

Spec == Init /\ [][Next]_vars

-----------------------------------------------------------------------------
(* Every public operation: process_event, tick, clear and update_config *)

CfgConfigs == {MixBase,
               [MixBase EXCEPT !.max_items = 1, !.group_timeout_ms = 0],
               [MixBase EXCEPT !.max_items = 1, !.group_timeout_ms = 0,
                               !.key_transition_mode = "SplitCells"]}

InitCfg == InitWith(CfgConfigs)

UpdateConfig == UpdateConfigStep(CfgConfigs, "off")

NextCfg == Key \/ Mouse \/ Ime \/ Tick \/ Clear \/ Advance \/ UpdateConfig

SpecCfg == InitCfg /\ [][NextCfg]_vars

-----------------------------------------------------------------------------
(* Claims on the item list and the press-target map *)

ItemIds(list) == {list[i].id : i \in DOMAIN list}

\* C1: with the configuration fixed, after every process_event and tick call
\* the list holds at most max_items items.
C1_Bounded == Len(active_items) <= config.max_items

\* more items were created than fit, before any could expire: one was evicted
C1_Witness ==
    /\ now = 0
    /\ next_id > config.max_items
    /\ Len(active_items) = config.max_items

\* C2: after every public operation, every entry of the press-target map
\* names the id of an item that is in the list.
C2_TargetsLive ==
    \A k \in DOMAIN active_presses :
        active_presses[k].item_id \in ItemIds(active_items)

\* a press is tracked although an older item has already left the list
C2_Witness ==
    /\ active_presses # EmptyMap
    /\ \E id \in 0..(next_id - 1) : id \notin ItemIds(active_items)

-----------------------------------------------------------------------------
(* Display, fade-out and expiry: one key and the IME composition, with the *)
(* clock running past the end of the fade                                  *)

FadeConfigs ==
    {[DefaultConfig EXCEPT !.display_duration_ms = 1, !.fade_duration_ms = 3],
     [DefaultConfig EXCEPT !.display_duration_ms = 1, !.fade_duration_ms = 3,
                           !.fade_out_curve = "EaseOut"]}

InitFade == InitWith(FadeConfigs)

FadeKey == KeyStep({PK_A}, DownUp, {NoMods}, "last")
FadeIme == ImeStep({[kind |-> "CompositionUpdate", enabled |-> FALSE,
                     text |-> KanaA]}, "last")
FadeTick == TickStep("last")
FadeAdvance == AdvanceTo(MaxFadeTime)

NextFade == FadeKey \/ FadeIme \/ FadeTick \/ FadeAdvance

SpecFade == InitFade /\ [][NextFade]_vars

\* C3: no item of the list is Expired after a tick or a process_event call.
C3_NoExpiredVisible ==
    \A i \in DOMAIN active_items : active_items[i].phase # "Expired"

\* the tick just made took an item out of the list
C3_Witness ==
    /\ last.op = "tick"
    /\ Len(active_items) < Len(last.before.items)

\* the fade the claim describes, for an item created at created_at and seen
\* by a tick at time t: 1 - progress or its square, progress being the share
\* of the fade time that has passed, clamped to [0, 1]
C8_Expected(cfg, created_at, t) ==
    LET fade == cfg.fade_duration_ms
        passed == Max(0, t - (created_at + cfg.display_duration_ms))
        left == fade - Min(passed, fade)
    IN IF cfg.fade_out_curve = "Linear" THEN Frac(left, fade)
       ELSE Frac(left * left, fade * fade)

-----------------------------------------------------------------------------
(* A key press and its release, in both transition modes, with and without *)
(* grouping, at every gap the clock allows                                 *)

PressBase == [MixBase EXCEPT !.repeat_timeout_ms = 1]
PressConfigs ==
    {[PressBase EXCEPT !.key_transition_mode = m, !.group_timeout_ms = g] :
        m \in {"SingleCell", "SplitCells"}, g \in {0, 1}}
    \cup {[PressBase EXCEPT !.key_transition_mode = "SplitCells",
                            !.group_timeout_ms = 0, !.max_items = 1]}

InitPress == InitWith(PressConfigs)

PressKeyStep == KeyStep({PK_A}, DownUp, {NoMods}, "prev")
PressMouse == MouseStep(MixMouse, "prev")
PressTick == TickStep("prev")
PressAdvance == AdvanceTo(MaxPressTime)

NextPress == PressKeyStep \/ PressMouse \/ PressTick \/ PressAdvance

SpecPress == InitPress /\ [][NextPress]_vars

\* the items of a list with a given id
WithId(list, id) == {list[i] : i \in {j \in DOMAIN list : list[j].id = id}}

\* the action an item shows for the keystroke a press target names
ShownAction(item, target) ==
    IF item.kind.tag = "KeyStroke" THEN item.kind.action
    ELSE IF item.kind.tag = "KeyStrokeGroup" /\ IsSome(target.group_index)
            /\ Unwrap(target.group_index) + 1 \in DOMAIN item.kind.strokes
    THEN item.kind.strokes[Unwrap(target.group_index) + 1].action
    ELSE "none"

\* the last two calls were a Down of a physical key and the Up of that key,
\* both displayed as keystrokes (no modifier, shortcut or IME capture)
DownThenUp ==
    /\ last.op = "key" /\ last.path = "up"
    /\ hist # <<>> /\ hist[1].op = "key" /\ hist[1].path = "down"
    /\ PressKey(hist[1].ev) = PressKey(last.ev)

DownTarget == Unwrap(hist[1].target)
UpGap == last.ev.timestamp - hist[1].ev.timestamp

\* SingleCell: the item that showed the Down is in the list with the same id
\* and shows Up
C4_SingleCell ==
    (DownThenUp /\ config.key_transition_mode = "SingleCell") =>
        /\ \E it \in WithId(last.before.items, DownTarget.item_id) :
                ShownAction(it, DownTarget) = "Down"
        /\ \E it \in WithId(active_items, DownTarget.item_id) :
                ShownAction(it, DownTarget) = "Up"
        /\ Len(active_items) = Len(last.before.items)

\* the claim as stated for SplitCells, read for a list with room for one
\* more item: two distinct items, both in the list
C4_SplitAlways ==
    (/\ DownThenUp
     /\ config.key_transition_mode = "SplitCells"
     /\ Len(last.before.items) < config.max_items) =>
        /\ Unwrap(last.target).item_id # DownTarget.item_id
        /\ WithId(active_items, DownTarget.item_id) # {}
        /\ WithId(active_items, Unwrap(last.target).item_id) # {}

\* C4 as stated: the SingleCell and SplitCells outcomes hold for every
\* group_timeout setting and every gap between the Down and the Up.
C4_AsStated == C4_SingleCell /\ C4_SplitAlways

\* C4: in SingleCell the item showing the Down keeps its id and changes to
\* Up, for every group_timeout and gap; in SplitCells the Up gets a new item
\* with another id when group_timeout is 0 or the gap is at least
\* group_timeout, and both items are in the list if it had room for one more.
C4_DownUp ==
    /\ C4_SingleCell
    /\ (/\ DownThenUp
        /\ config.key_transition_mode = "SplitCells"
        /\ config.group_timeout_ms = 0 \/ UpGap >= config.group_timeout_ms) =>
            /\ Unwrap(last.target).item_id = last.before.next_id
            /\ Unwrap(last.target).item_id # DownTarget.item_id
            /\ \E it \in WithId(active_items, Unwrap(last.target).item_id) :
                    ShownAction(it, Unwrap(last.target)) = "Up"
            /\ Len(last.before.items) < config.max_items =>
                    \E it \in WithId(active_items, DownTarget.item_id) :
                        ShownAction(it, DownTarget) = "Down"

\* a Down and its Up were shown in two items, with grouping enabled and the
\* Up a full group_timeout after the Down
C4_Witness ==
    /\ DownThenUp
    /\ config.key_transition_mode = "SplitCells"
    /\ config.group_timeout_ms > 0
    /\ UpGap >= config.group_timeout_ms
    /\ Len(active_items) = 2

-----------------------------------------------------------------------------
(* clear() between the presses and releases of two keys *)

ClearConfigs ==
    {MixBase, [MixBase EXCEPT !.group_timeout_ms = 0],
     [MixBase EXCEPT !.key_transition_mode = "SplitCells"]}

InitClear == InitWith(ClearConfigs)

ClearKey == KeyStep({PK_A, PK_B}, DownUp, {NoMods}, "hist")
ClearCall == ClearStep("hist")

NextClear == ClearKey \/ ClearCall

SpecClear == InitClear /\ [][NextClear]_vars

\* call n of the list is a displayed Down or Up of the physical key pk
IsKeyCall(n, pk, action) ==
    /\ hist[n].op = "key"
    /\ hist[n].ev.action = action
    /\ PressKey(hist[n].ev) = pk

\* the last call is the Up of a physical key whose Down was processed before
\* a clear() and which was not pressed again since
UpAfterClear ==
    /\ last.op = "key" /\ last.ev.action = "Up"
    /\ \E c \in DOMAIN hist :
          /\ hist[c].op = "clear"
          /\ \E d \in 1..(c - 1) : IsKeyCall(d, PressKey(last.ev), "Down")
          /\ \A e \in (c + 1)..(Len(hist) - 1) :
                ~IsKeyCall(e, PressKey(last.ev), "Down")

\* C7: after clear() the list is empty, and in SingleCell mode the Up of a
\* key whose Down was processed before the clear() leaves the engine as it was.
C7_ClearForgets ==
    /\ last.op = "clear" => active_items = <<>>
    /\ (UpAfterClear /\ config.key_transition_mode = "SingleCell") =>
            Self = last.before

\* such an Up arrived, the clear() having emptied a list that held an item,
\* and another key event came between the clear() and the Up
C7_Witness ==
    /\ UpAfterClear
    /\ config.key_transition_mode = "SingleCell"
    /\ next_id > 0
    /\ \E c \in 1..(Len(hist) - 2) : hist[c].op = "clear" /\ hist[c + 1].op = "key"

-----------------------------------------------------------------------------
(* One key pressed again and again, its Up events delivered or not *)

RepeatBase == [DefaultConfig EXCEPT !.repeat_timeout_ms = 1, !.max_items = 3]
RepeatConfigs ==
    {[RepeatBase EXCEPT !.key_transition_mode = m, !.group_timeout_ms = g] :
        m \in {"SingleCell", "SplitCells"}, g \in {0, 2}}

InitRepeat == InitWith(RepeatConfigs)

RepeatKey == KeyStep({PK_A}, DownUp, {NoMods}, "hist")
RepeatTick == TickStep("hist")
RepeatAdvance == AdvanceTo(MaxTime)

NextRepeat == RepeatKey \/ RepeatTick \/ RepeatAdvance

SpecRepeat == InitRepeat /\ [][NextRepeat]_vars

\* the calls of the list that are Down events, and those that are Up events
DownCalls == {n \in DOMAIN hist : hist[n].op = "key" /\ hist[n].ev.action = "Down"}
UpCalls == {n \in DOMAIN hist : hist[n].op = "key" /\ hist[n].ev.action = "Up"}

\* the gap between Down call n and the Down before it
DownGap(n) ==
    LET before == {m \in DownCalls : m < n}
        prev == CHOOSE m \in before : \A k \in before : k <= m
    IN hist[n].ev.timestamp - hist[prev].ev.timestamp

\* the keystrokes a list shows for a label, as <<item index, entry index>>
ShownFor(list, lbl) ==
    {<<i, 0>> : i \in {j \in DOMAIN list :
                    list[j].kind.tag = "KeyStroke" /\ list[j].kind.label = lbl}}
    \cup UNION {{<<i, e>> : e \in {f \in DOMAIN list[i].kind.strokes :
                                    list[i].kind.strokes[f].label = lbl}} :
                i \in {j \in DOMAIN list : list[j].kind.tag = "KeyStrokeGroup"}}

\* the repeat_count of a keystroke of ShownFor
CountAt(list, at) ==
    IF at[2] = 0 THEN list[at[1]].kind.repeat_count
    ELSE list[at[1]].kind.strokes[at[2]].repeat_count

\* the third Down of the key has just been processed, the second less than
\* repeat_timeout after the first
ThirdDown ==
    /\ last.op = "key" /\ last.ev.action = "Down"
    /\ Cardinality(DownCalls) = 3
    /\ \E n \in DownCalls :
          /\ n # Len(hist)
          /\ \E m \in DownCalls : m < n
          /\ DownGap(n) < config.repeat_timeout_ms

\* one keystroke is shown for the key and its repeat_count is 3
OneShownThrice ==
    /\ Cardinality(ShownFor(active_items, "A")) = 1
    /\ \A at \in ShownFor(active_items, "A") : CountAt(active_items, at) = 3

\* the third Down, later than repeat_timeout after the second, counts from 1
\* again: in the tracker and in the keystroke shown for it
C5_Restart ==
    (ThirdDown /\ DownGap(Len(hist)) > config.repeat_timeout_ms) =>
        /\ repeat_tracker.count = 1
        /\ \E it \in WithId(active_items, Unwrap(last.target).item_id) :
              IF it.kind.tag = "KeyStroke" THEN it.kind.repeat_count = 1
              ELSE it.kind.strokes[Unwrap(Unwrap(last.target).group_index) + 1]
                        .repeat_count = 1

-----------------------------------------------------------------------------
(* Runs of Down events of four keys, from the empty list *)

GroupBase == [MixBase EXCEPT !.group_timeout_ms = 1]
GroupConfigs ==
    {[GroupBase EXCEPT !.max_group_size = 3],
     [GroupBase EXCEPT !.key_transition_mode = "SplitCells"]}

InitGroup == InitWith(GroupConfigs)

GroupKey == KeyStep({PK_A, PK_B, PK_C, PK_D}, {"Down"}, {NoMods}, "hist")
GroupAdvance == AdvanceTo(MaxPressTime)

NextGroup == GroupKey \/ GroupAdvance

SpecGroup == InitGroup /\ [][NextGroup]_vars

\* the calls so far are Down events of pairwise different keys, each less
\* than group_timeout after the one before
DistinctRun ==
    /\ \A m, n \in DOMAIN hist : m # n => hist[m].ev.key # hist[n].ev.key
    /\ \A n \in 2..Len(hist) :
          hist[n].ev.timestamp - hist[n - 1].ev.timestamp < config.group_timeout_ms

\* the labels of the keystrokes of an item, as a sequence
LabelsOf(item) ==
    IF item.kind.tag = "KeyStroke" THEN <<item.kind.label>>
    ELSE [e \in DOMAIN item.kind.strokes |-> item.kind.strokes[e].label]

\* the labels of calls from..to of the list of calls
RunLabels(from, to) == [n \in 1..(to - from + 1) |-> label(hist[from + n - 1].ev.key)]

\* C6: with group_timeout > 0 and max_group_size g >= 2, a run of Down events
\* of pairwise different keys from the empty list, each less than
\* group_timeout after the one before, puts the first g keystrokes in one
\* KeyStrokeGroup in arrival order and the (g+1)-th in a new item.
C6_Grouping ==
    LET g == config.max_group_size
        k == Len(hist)
    IN (DistinctRun /\ config.group_timeout_ms > 0 /\ g >= 2) =>
        /\ (2 <= k /\ k <= g) =>
              /\ Len(active_items) = 1
              /\ active_items[1].kind.tag = "KeyStrokeGroup"
              /\ LabelsOf(active_items[1]) = RunLabels(1, k)
        /\ k = g + 1 =>
              /\ Len(active_items) = 2
              /\ active_items[1].kind.tag = "KeyStrokeGroup"
              /\ LabelsOf(active_items[1]) = RunLabels(1, g)
              /\ active_items[2].kind.tag = "KeyStroke"
              /\ LabelsOf(active_items[2]) = RunLabels(k, k)
              /\ active_items[2].id # active_items[1].id

\* A, B, C, D with max_group_size 3: the group [A, B, C] and an item for D
C6_Witness ==
    /\ DistinctRun
    /\ config.max_group_size = 3
    /\ Len(hist) = 4
    /\ RunLabels(1, 4) = <<"A", "B", "C", "D">>
    /\ Len(active_items) = 2
    /\ LabelsOf(active_items[1]) = <<"A", "B", "C">>

-----------------------------------------------------------------------------
(* Clipboard previews of short texts of ASCII letters and kana *)

ClipTexts == UNION {[1..n -> {"a", "U3042"}] : n \in 0..MaxClipLen}
ClipContents == {[tag |-> "Text", text |-> t] : t \in ClipTexts}
ClipConfigs == {MixBase, [MixBase EXCEPT !.clipboard_max_chars = 1],
                [MixBase EXCEPT !.show_clipboard = FALSE]}

InitClip == InitWith(ClipConfigs)

ClipPaste == ClipboardStep(ClipContents, "last")

NextClip == ClipPaste

SpecClip == InitClip /\ [][NextClip]_vars

\* the last call was a clipboard text event and show_clipboard is enabled
TextPasted ==
    /\ last.op = "clipboard"
    /\ last.ev.content.tag = "Text"
    /\ config.show_clipboard

\* C9: a clipboard text of more than clipboard_max_chars characters is shown
\* as its first clipboard_max_chars characters followed by "...", a text of
\* that many characters or fewer is shown unchanged.
C9_Truncation ==
    TextPasted =>
        LET text == last.ev.content.text
            max == config.clipboard_max_chars
            shown == active_items[Len(active_items)]
        IN /\ active_items # <<>>
           /\ shown.id = last.before.next_id
           /\ shown.kind.tag = "ClipboardPreview"
           /\ shown.kind.text =
                IF Len(text) > max
                THEN [i \in 1..max |-> text[i]] \o <<".", ".", ".">>
                ELSE text

\* a text of kana was cut to its first two characters
C9_Witness ==
    /\ TextPasted
    /\ last.ev.content.text = <<"U3042", "U3042", "a">>
    /\ active_items[Len(active_items)].kind.text = <<"U3042", "U3042", ".", ".", ".">>

-----------------------------------------------------------------------------
(* The transliterator on every short buffer of lower-case letters, one     *)
(* iteration of its loop at a time                                         *)

RomajiLetters == {"a", "k", "n", "x", "y"}
RomajiBuffers == UNION {[1..n -> RomajiLetters] : n \in 0..MaxRomajiLen}

\* the loop of romaji_to_hiragana about to start on a buffer
RomajiStart(buffer) ==
    [bytes |-> romaji_filter(buffer), i |-> 0, out |-> <<>>, done |-> FALSE,
     rule |-> "start", from |-> 0, had |-> <<>>]

InitRomaji ==
    /\ Holds(DisplayState_new(DefaultConfig, 0))
    /\ now = 0
    /\ last = NoCall
    /\ hist = <<>>
    /\ tr \in {RomajiStart(b) : b \in RomajiBuffers}

\* one iteration of the loop; from and had keep the position and the output
\* it started with
RomajiStep ==
    /\ ~tr.done
    /\ LET st == romaji_step(tr.bytes, tr.i, tr.out)
       IN tr' = [bytes |-> tr.bytes, i |-> st.i, out |-> st.out, done |-> st.done,
                 rule |-> st.rule, from |-> tr.i, had |-> tr.out]
    /\ UNCHANGED <<engine, now, last, hist>>

NextRomaji == RomajiStep

SpecRomaji == InitRomaji /\ [][NextRomaji]_vars

\* no rule of the transliterator applies at position i (counted from 0): no
\* doubled consonant, no rule for n, no table entry of one to three letters
NoRuleAt(bytes, i) ==
    LET n == Len(bytes)
        cur == bytes[i + 1]
    IN /\ ~(i + 1 < n /\ cur = bytes[i + 2] /\ is_romaji_consonant(cur) /\ cur # "n")
       /\ cur # "n"
       /\ \A w \in 1..3 :
            i + w <= n =>
                LET chunk == Chunk(bytes, i, i + w)
                IN CASE w = 1 -> romaji_map_1(chunk) = None
                     [] w = 2 -> romaji_map_2(chunk) = None
                     [] OTHER -> romaji_map_3(chunk) = None

\* C10: the buffer n yields the empty string and nn exactly one kana n; a
\* last character that matches no rule ends the loop and adds nothing to the
\* output; a character that matches no rule and is not the last is passed
\* through unchanged.
C10_Pending ==
    LET n == Len(tr.bytes)
        stepped == tr.rule # "start" /\ tr.from < n
    IN /\ tr.bytes = <<"n">> => romaji_to_hiragana(tr.bytes) = <<>>
       /\ tr.bytes = <<"n", "n">> => romaji_to_hiragana(tr.bytes) = <<"U3093">>
       /\ tr.done => tr.out = romaji_to_hiragana(tr.bytes)
       /\ (stepped /\ tr.from = n - 1 /\ NoRuleAt(tr.bytes, tr.from)) =>
            tr.done /\ tr.out = tr.had /\ tr.i = tr.from
       /\ (stepped /\ tr.from < n - 1 /\ NoRuleAt(tr.bytes, tr.from)) =>
            /\ ~tr.done
            /\ tr.out = Append(tr.had, tr.bytes[tr.from + 1])
            /\ tr.i = tr.from + 1

\* x was passed through and the last character, k, was held back
C10_Witness ==
    /\ tr.bytes = <<"x", "k">>
    /\ tr.done
    /\ tr.rule = "pending"
    /\ tr.out = <<"x">>
    /\ tr.i = 1

(***************************************************************************)
(* The transliterator on concatenations of keys of its tables              *)
(***************************************************************************)

MaxKeys == 2

RomajiAlphabet ==
    {"a", "b", "c", "d", "e", "f", "g", "h", "i", "j", "k", "l", "m", "n", "o",
     "p", "q", "r", "s", "t", "u", "v", "w", "x", "y", "z"}
RomajiChunks == UNION {[1..n -> RomajiAlphabet] : n \in 1..3}

\* the keys the three tables list, read off the tables themselves
TableKeys3 == {c \in RomajiChunks : romaji_map_3(c) # None}
TableKeys2 == {c \in RomajiChunks : romaji_map_2(c) # None}
TableKeys1 == {c \in RomajiChunks : romaji_map_1(c) # None}
TableKeys == TableKeys3 \cup TableKeys2 \cup TableKeys1

\* the kana a table gives for one of its keys
TableKana(key) ==
    IF romaji_map_3(key) # None THEN Unwrap(romaji_map_3(key))
    ELSE IF romaji_map_2(key) # None THEN Unwrap(romaji_map_2(key))
    ELSE Unwrap(romaji_map_1(key))

RECURSIVE JoinAll(_)
JoinAll(seqs) == IF seqs = <<>> THEN <<>> ELSE Head(seqs) \o JoinAll(Tail(seqs))

\* keys that are concatenated: one of each table and of each special rule
\* (n before y, n before a vowel, a key of two letters in the three-letter table)
TableSample ==
    {<<"a">>, <<"k", "a">>, <<"n", "a">>, <<"y", "a">>, <<"k", "y", "a">>,
     <<"n", "y", "a">>, <<"t", "s", "u">>}
TableKeyLists ==
    {<<k>> : k \in TableKeys}
        \cup UNION {[1..n -> TableSample] : n \in 2..MaxKeys}

TableStart(keys) ==
    [keys |-> keys, bytes |-> romaji_filter(JoinAll(keys)), i |-> 0, out |-> <<>>,
     done |-> FALSE, rule |-> "start", from |-> 0, had |-> <<>>]

InitTable ==
    /\ Holds(DisplayState_new(DefaultConfig, 0))
    /\ now = 0
    /\ last = NoCall
    /\ hist = <<>>
    /\ tr \in {TableStart(ks) : ks \in TableKeyLists}

\* one iteration of the loop of romaji_to_hiragana
TableStep ==
    /\ ~tr.done
    /\ LET st == romaji_step(tr.bytes, tr.i, tr.out)
       IN tr' = [keys |-> tr.keys, bytes |-> tr.bytes, i |-> st.i, out |-> st.out,
                 done |-> st.done, rule |-> st.rule, from |-> tr.i, had |-> tr.out]
    /\ UNCHANGED <<engine, now, last, hist>>

NextTable == TableStep

SpecTable == InitTable /\ [][NextTable]_vars

\* the kana of the keys of a buffer, in the order of the keys
ExpectedKana(keys) == JoinAll([n \in 1..Len(keys) |-> TableKana(keys[n])])

NoLatin(text) == \A n \in 1..Len(text) : ~is_ascii_alphabetic(text[n])

\* C11: for every buffer that is a concatenation of keys of the tables the
\* output of the transliterator is the concatenation of the kana of the keys,
\* in the same order, and holds no Latin letter; a key alone yields its kana.
C11_AsStated ==
    tr.done =>
        /\ tr.out = romaji_to_hiragana(JoinAll(tr.keys))
        /\ tr.out = ExpectedKana(tr.keys)
        /\ NoLatin(tr.out)

\* the same for every key but the three keys of two letters that the
\* three-letter table lists (ja, ju, jo)
C11_LongKeys ==
    (tr.done /\ \A n \in 1..Len(tr.keys) :
                    tr.keys[n] \in TableKeys3 => Len(tr.keys[n]) = 3) =>
        /\ tr.out = ExpectedKana(tr.keys)
        /\ NoLatin(tr.out)

\* ja alone comes out as the letter j followed by the kana a
C11_Witness ==
    /\ tr.keys = <<<<"j", "a">>>>
    /\ tr.done
    /\ tr.out = <<"j", "U3042">>

-----------------------------------------------------------------------------
(* Claims on the composition display *)

ImeItems(list) == {n \in DOMAIN list : IsIme(list[n])}

\* C12: after every operation the item list holds at most one item of kind
\* ImeComposition, whatever the interleaving of native IME events, fallback
\* key capture, IME-toggle keys, ticks and evictions.
C12_OneComposition == Cardinality(ImeItems(active_items)) <= 1

\* two letters were captured one after the other, and the only item ever
\* created shows both
C12_Witness ==
    /\ next_id = 1
    /\ Len(active_items) = 1
    /\ IsIme(active_items[1])
    /\ ime_fallback_romaji = <<"a", "a">>
    /\ active_items[1].kind.text = <<"U3042", "U3042">>

-----------------------------------------------------------------------------
(* Claims on the item ids *)

\* the ids a call gave to new items: those shown now and not before the call
NewIds == IF last.before = None THEN ItemIds(active_items)
          ELSE ItemIds(active_items) \ ItemIds(last.before.items)

\* C13: item ids are never reused. Every call leaves next_id at least where
\* it was and above every id shown, every item a call creates has an id at or
\* above the next_id the call started from (so above every id given before,
\* also after clear() and after evictions), and the ids of the list are
\* strictly increasing from the oldest to the newest position.
C13_FreshIds ==
    /\ \A i, j \in DOMAIN active_items :
          i < j => active_items[i].id < active_items[j].id
    /\ \A i \in DOMAIN active_items : active_items[i].id < next_id
    /\ last.before # None =>
          /\ next_id >= last.before.next_id
          /\ \A id \in NewIds : id >= last.before.next_id

\* a key pressed right after a clear() that emptied a list from which an item
\* had been evicted before: its item gets an id never given before
C13_Witness ==
    /\ Len(hist) >= 5
    /\ hist[Len(hist) - 1].op = "clear"
    /\ hist[Len(hist) - 2].op = "key"
    /\ last.op = "key"
    /\ last.before.items = <<>>
    /\ last.before.next_id = 3
    /\ Len(active_items) = 1
    /\ active_items[1].id = 3

-----------------------------------------------------------------------------
(* clear() between IME-toggle keys, letters and native IME events *)

InitPrivacy == InitWith({MixBase})

PrivacyKey == KeyStep({PK_A, PK_KANJI}, DownUp, {NoMods}, "prev")
PrivacyIme == ImeStep(MixIme, "prev")
PrivacyClear == ClearStep("prev")

NextPrivacy == PrivacyKey \/ PrivacyIme \/ PrivacyClear

SpecPrivacy == InitPrivacy /\ [][NextPrivacy]_vars

\* the last call is the Down of an unmodified letter and the call before it
\* was clear()
LetterAfterClear ==
    /\ hist # <<>>
    /\ hist[1].op = "clear"
    /\ last.op = "key"
    /\ last.ev.action = "Down"
    /\ last.ev.key = KEY_A
    /\ ~any(last.ev.modifiers)

\* C14: after clear() the item list and the press-target map are empty, the
\* fallback buffer is empty, the composing flags and the fallback-enabled flag
\* are false, and a following unmodified letter Down is not captured as
\* fallback IME input.
C14_AsStated ==
    /\ last.op = "clear" =>
          /\ active_items = <<>>
          /\ active_presses = EmptyMap
          /\ ime_fallback_romaji = <<>>
          /\ ~ime_composing
          /\ ~ime_native_composing
          /\ ~ime_fallback_enabled
    /\ LetterAfterClear => last.path # "ime_fallback"

\* the Kanji key was pressed before the clear(), and the letter pressed after
\* the clear() is shown as a composition
C14_Witness ==
    /\ LetterAfterClear
    /\ last.path = "ime_fallback"
    /\ last.before.items = <<>>
    /\ Len(active_items) = 1
    /\ active_items[1].kind = ImeComposition(<<"U3042">>)

-----------------------------------------------------------------------------
(* RepeatTracker::track on its own: calls with two keys, with and without  *)
(* Ctrl, at gaps below, at and above repeat_timeout                        *)

TrackConfigs == {MixBase, [MixBase EXCEPT !.repeat_timeout_ms = 1]}

InitTrack == InitWith(TrackConfigs)

\* one call of track on the tracker of the engine
TrackStep ==
    \E key \in {KEY_A, KEY_B}, modifiers \in MixMods :
        LET r == track(repeat_tracker, key, modifiers, now)
        IN /\ repeat_tracker.count < MaxRepeat
           /\ repeat_tracker' = r.rt
           /\ last' = [op |-> "track",
                       ev |-> [key |-> key, modifiers |-> modifiers, now |-> now],
                       ret |-> r.ret, before |-> repeat_tracker]
           /\ UNCHANGED <<items, config, next_id, active_presses, ime_composing,
                          ime_native_composing, ime_fallback_enabled,
                          ime_fallback_romaji, now, hist, tr>>

TrackAdvance == AdvanceTo(MaxTime)

NextTrack == TrackStep \/ TrackAdvance

SpecTrack == InitTrack /\ [][NextTrack]_vars

\* the time between the last call of track and the call before it
TrackElapsed == duration_since(last.ev.now, last.before.last_time)

\* the last call of track repeats the key and the modifiers of the call before
TrackSame ==
    /\ last.before.last_key = Some(last.ev.key)
    /\ last.before.last_modifiers = last.ev.modifiers

\* C15: track returns 1 when the key or the modifiers differ from the previous
\* call or when the time since the previous call exceeds repeat_timeout, and
\* in every other case, an elapsed time equal to repeat_timeout included, the
\* previous result plus 1.
C15_AsStated ==
    last.op = "track" =>
        last.ret = IF ~TrackSame \/ TrackElapsed > last.before.timeout
                   THEN 1
                   ELSE last.before.count + 1

\* the same key and modifiers exactly repeat_timeout after the previous call:
\* the count starts again at 1
C15_Witness ==
    /\ last.op = "track"
    /\ TrackSame
    /\ last.before.count >= 1
    /\ TrackElapsed = last.before.timeout
    /\ last.ret = 1
    /\ repeat_tracker.count = 1

-----------------------------------------------------------------------------
(* Hot reload: update_config between the presses and releases of a key *)

ReloadConfigs ==
    {MixBase, [MixBase EXCEPT !.group_timeout_ms = 0],
     [MixBase EXCEPT !.key_transition_mode = "SplitCells"]}

InitReload == InitWith(ReloadConfigs)

ReloadKey == KeyStep({PK_A}, DownUp, {NoMods}, "hist")

\* update_config(cfg); the call is recorded with the transition mode held
\* before it
ReloadCall ==
    \E cfg \in ReloadConfigs :
        /\ HistFits("hist")
        /\ validate(cfg)
        /\ Install(update_config(Self, cfg))
        /\ Record("hist", Call("update_config", cfg, config.key_transition_mode, None))
        /\ UNCHANGED <<now, tr>>

NextReload == ReloadKey \/ ReloadCall

SpecReload == InitReload /\ [][NextReload]_vars

\* the press targets of a map whose item is in a list
LiveTargets(presses, list) ==
    {k \in DOMAIN presses : presses[k].item_id \in ItemIds(list)}

\* call n switched the transition mode from SplitCells to SingleCell
SwitchToSingle(n) ==
    /\ hist[n].op = "update_config"
    /\ hist[n].path = "SplitCells"
    /\ hist[n].ev.key_transition_mode = "SingleCell"

\* the last call is the Up of a key that was pressed before a switch to
\* SingleCell and not since, with SingleCell still the mode
UpAfterSwitch ==
    /\ last.op = "key" /\ last.ev.action = "Up"
    /\ last.before.config.key_transition_mode = "SingleCell"
    /\ \E n \in 1..(Len(hist) - 1) :
          /\ SwitchToSingle(n)
          /\ \E m \in 1..(n - 1) : IsKeyCall(m, PressKey(last.ev), "Down")
          /\ \A m \in (n + 1)..(Len(hist) - 1) :
                ~IsKeyCall(m, PressKey(last.ev), "Down")

\* C16: update_config replaces the held configuration; it empties the
\* press-target map when key_transition_mode differs between the old and the
\* new configuration, and keeps every press target whose item is present when
\* the mode is the same. After a switch to SingleCell the Up of a key pressed
\* before the switch changes no item.
C16_ModeSwitch ==
    /\ last.op = "update_config" =>
          /\ config = last.ev
          /\ active_items = last.before.items
          /\ last.before.config.key_transition_mode # last.ev.key_transition_mode =>
                active_presses = EmptyMap
          /\ last.before.config.key_transition_mode = last.ev.key_transition_mode =>
                /\ DOMAIN active_presses =
                      LiveTargets(last.before.active_presses, last.before.items)
                /\ \A k \in DOMAIN active_presses :
                      active_presses[k] = last.before.active_presses[k]
    /\ UpAfterSwitch => active_items = last.before.items

\* A was pressed in SplitCells mode, the mode was switched to SingleCell, and
\* the Up of A left the item that shows A Down as it was
C16_Witness ==
    /\ UpAfterSwitch
    /\ Len(hist) = 3
    /\ Len(active_items) = 1
    /\ active_items[1].kind.tag = "KeyStroke"
    /\ active_items[1].kind.action = "Down"
    /\ last.path = "up"

\* a reload that kept the mode kept the press target of the key held down
C16_KeptWitness ==
    /\ last.op = "update_config"
    /\ last.before.config # last.ev
    /\ last.before.config.key_transition_mode = last.ev.key_transition_mode
    /\ active_presses # EmptyMap

-----------------------------------------------------------------------------
(* config.rs: the configuration file.  An f32 is finite (its value a whole  *)
(* number here), NaN or an infinity; a JSON value is a number, a string or  *)
(* null; a JSON object is a function from field names to JSON values.       *)

SCHEMA_VERSION == 2

F32(n) == [class |-> "finite", value |-> n]
F32_NAN == [class |-> "nan", value |-> 0]
F32_INFINITY == [class |-> "inf", value |-> 0]
F32_NEG_INFINITY == [class |-> "-inf", value |-> 0]

\* f <= n and f >= n for an f32 f and a whole number n; false for NaN
f32_le(f, n) ==
    CASE f.class = "finite" -> f.value <= n
      [] f.class = "-inf" -> TRUE
      [] OTHER -> FALSE
f32_ge(f, n) ==
    CASE f.class = "finite" -> f.value >= n
      [] f.class = "inf" -> TRUE
      [] OTHER -> FALSE

JNumber(n) == [t |-> "number", v |-> n]
JString(str) == [t |-> "string", v |-> str]
JNull == [t |-> "null", v |-> 0]

\* serde_json: a finite f32 is written as a number, NaN and the infinities
\* as null
serialize_f32(f) == IF f.class = "finite" THEN JNumber(f.value) ELSE JNull
\* serde_json: an f32 is read from a number only
deserialize_f32(j) == IF j.t = "number" THEN Some(F32(j.v)) ELSE None

serialize_u64(n) == JNumber(n)
deserialize_u64(j) == IF j.t = "number" /\ j.v >= 0 THEN Some(j.v) ELSE None

\* #[serde(rename_all = "kebab-case")] enum KeyTransitionMode
serialize_mode(mode) ==
    JString(IF mode = "SingleCell" THEN "single-cell" ELSE "split-cells")
deserialize_mode(j) ==
    CASE j = JString("single-cell") -> Some("SingleCell")
      [] j = JString("split-cells") -> Some("SplitCells")
      [] OTHER -> None

\* AppConfig::default() with the fields validate() reads in the style,
\* performance and animation sections, the schema version, the transition mode
\* and max_items; last_modified is #[serde(skip)]
AppConfig_default ==
    [schema_version |-> SCHEMA_VERSION, last_modified |-> None,
     max_items |-> 5, key_transition_mode |-> "SingleCell",
     font_size |-> F32(24), border_radius |-> F32(8), opacity |-> F32(1),
     frame_interval_ms |-> 16,
     ghost_threshold_px |-> F32(100), ghost_max_opacity |-> F32(1)]

\* AppConfig::validate on these fields; TRUE stands for Ok(())
AppConfig_validate(cfg) ==
    /\ cfg.schema_version = SCHEMA_VERSION
    /\ cfg.max_items # 0
    /\ ~f32_le(cfg.font_size, 0)
    /\ f32_ge(cfg.opacity, 0) /\ f32_le(cfg.opacity, 1)
    /\ cfg.frame_interval_ms # 0
    /\ ~f32_le(cfg.ghost_threshold_px, 0)
    /\ f32_ge(cfg.ghost_max_opacity, 0) /\ f32_le(cfg.ghost_max_opacity, 1)

\* serde_json::to_string_pretty(self): every field but last_modified
to_string_pretty(cfg) ==
    [schema_version |-> serialize_u64(cfg.schema_version),
     max_items |-> serialize_u64(cfg.max_items),
     key_transition_mode |-> serialize_mode(cfg.key_transition_mode),
     font_size |-> serialize_f32(cfg.font_size),
     border_radius |-> serialize_f32(cfg.border_radius),
     opacity |-> serialize_f32(cfg.opacity),
     frame_interval_ms |-> serialize_u64(cfg.frame_interval_ms),
     ghost_threshold_px |-> serialize_f32(cfg.ghost_threshold_px),
     ghost_max_opacity |-> serialize_f32(cfg.ghost_max_opacity)]

\* serde_json::from_str::<AppConfig>: None stands for a parse error
from_str(json) ==
    LET u64s == {"schema_version", "max_items", "frame_interval_ms"}
        f32s == {"font_size", "border_radius", "opacity", "ghost_threshold_px",
                 "ghost_max_opacity"}
    IN IF \/ \E f \in u64s : deserialize_u64(json[f]) = None
          \/ \E f \in f32s : deserialize_f32(json[f]) = None
          \/ deserialize_mode(json.key_transition_mode) = None
       THEN None
       ELSE Some([schema_version |-> Unwrap(deserialize_u64(json.schema_version)),
                  last_modified |-> None,
                  max_items |-> Unwrap(deserialize_u64(json.max_items)),
                  key_transition_mode |->
                      Unwrap(deserialize_mode(json.key_transition_mode)),
                  font_size |-> Unwrap(deserialize_f32(json.font_size)),
                  border_radius |-> Unwrap(deserialize_f32(json.border_radius)),
                  opacity |-> Unwrap(deserialize_f32(json.opacity)),
                  frame_interval_ms |->
                      Unwrap(deserialize_u64(json.frame_interval_ms)),
                  ghost_threshold_px |->
                      Unwrap(deserialize_f32(json.ghost_threshold_px)),
                  ghost_max_opacity |->
                      Unwrap(deserialize_f32(json.ghost_max_opacity))])

\* AppConfig::save_atomic, the file system taken to work: the file after the
\* call (None: no file) and whether Ok(()) was returned
save_atomic(cfg, file) ==
    IF ~AppConfig_validate(cfg)
    THEN [file |-> file, ok |-> FALSE]
    ELSE [file |-> Some(to_string_pretty(cfg)), ok |-> TRUE]

\* AppConfig::load_strict: the error kind, or the configuration loaded
load_strict(file) ==
    IF file = None THEN [err |-> "IoError", cfg |-> None]
    ELSE LET parsed == from_str(Unwrap(file))
         IN IF parsed = None THEN [err |-> "ParseError", cfg |-> None]
            ELSE IF ~AppConfig_validate(Unwrap(parsed))
            THEN [err |-> "ValidationError", cfg |-> None]
            ELSE [err |-> "",
                  cfg |-> Some([Unwrap(parsed) EXCEPT !.last_modified = Some("mtime")])]

-----------------------------------------------------------------------------
(* save_atomic followed by load_strict on one path *)

SaveConfigs ==
    {[AppConfig_default EXCEPT !.schema_version = v, !.font_size = fs,
                               !.border_radius = br, !.opacity = op,
                               !.frame_interval_ms = fi,
                               !.key_transition_mode = mode] :
        v \in {SCHEMA_VERSION, 1},
        fs \in {F32(30), F32(0), F32_NAN, F32_INFINITY},
        br \in {F32(8), F32_NEG_INFINITY},
        op \in {F32(1), F32_NAN},
        fi \in {20, 0},
        mode \in {"SingleCell", "SplitCells"}}

InitSave ==
    /\ Holds(DisplayState_new(DefaultConfig, 0))
    /\ now = 0
    /\ last = NoCall
    /\ hist = <<>>
    /\ tr \in {[cfg |-> c, file |-> None, stage |-> "new", saved |-> FALSE,
                loaded |-> None] : c \in SaveConfigs}

SaveStep ==
    /\ tr.stage = "new"
    /\ LET r == save_atomic(tr.cfg, tr.file)
       IN tr' = [tr EXCEPT !.file = r.file, !.saved = r.ok, !.stage = "saved"]
    /\ UNCHANGED <<engine, now, last, hist>>

LoadStep ==
    /\ tr.stage = "saved"
    /\ tr' = [tr EXCEPT !.loaded = load_strict(tr.file), !.stage = "loaded"]
    /\ UNCHANGED <<engine, now, last, hist>>

NextSave == SaveStep \/ LoadStep

SpecSave == InitSave /\ [][NextSave]_vars

\* C17: for every configuration that passes validate(), save_atomic(path)
\* followed by load_strict(path) succeeds and returns a configuration equal
\* to the saved one in every serialised field.
C17_AsStated ==
    (tr.stage = "loaded" /\ AppConfig_validate(tr.cfg)) =>
        /\ tr.saved
        /\ tr.loaded.err = ""
        /\ [Unwrap(tr.loaded.cfg) EXCEPT !.last_modified = None] =
              [tr.cfg EXCEPT !.last_modified = None]

\* the same for configurations whose f32 fields are all finite
C17_Finite ==
    (/\ tr.stage = "loaded"
     /\ AppConfig_validate(tr.cfg)
     /\ tr.cfg.font_size.class = "finite"
     /\ tr.cfg.border_radius.class = "finite") =>
        /\ tr.saved
        /\ tr.loaded.err = ""
        /\ [Unwrap(tr.loaded.cfg) EXCEPT !.last_modified = None] =
              [tr.cfg EXCEPT !.last_modified = None]

\* a configuration with font_size NaN passed validate() and was saved, and
\* load_strict returned a parse error
C17_Witness ==
    /\ tr.stage = "loaded"
    /\ tr.cfg.font_size = F32_NAN
    /\ tr.cfg.border_radius = F32(8)
    /\ AppConfig_validate(tr.cfg)
    /\ tr.saved
    /\ tr.loaded.err = "ParseError"

-----------------------------------------------------------------------------
(* Key events under a configuration with ignored keys: the letter A in      *)
(* lower case, or the label of the keys without a name ("?"), which is the  *)
(* label of the IME-toggle keys                                            *)

IgnoreConfigs ==
    {[MixBase EXCEPT !.ignored_keys = <<"a">>],
     [MixBase EXCEPT !.ignored_keys = <<"b", "?">>]}

InitIgnore == InitWith(IgnoreConfigs)

IgnoreKey == KeyStep({PK_A, PK_B, PK_KANJI}, DownUp, MixMods, "last")
IgnoreIme == ImeStep(MixIme, "last")

NextIgnore == IgnoreKey \/ IgnoreIme

SpecIgnore == InitIgnore /\ [][NextIgnore]_vars

\* the last call is a key event whose full label is, ignoring ASCII case, an
\* entry of ignored_keys
IgnoredKeyEvent ==
    /\ last.op = "key"
    /\ \E i \in DOMAIN last.before.config.ignored_keys :
          ascii_lowercase(last.before.config.ignored_keys[i]) =
              ascii_lowercase(label(last.ev.key))

\* C18: a key event whose full label equals, ignoring ASCII case, an entry of
\* ignored_keys leaves the whole engine state unchanged: item list,
\* press-target map, repeat tracker, fallback-enabled flag, fallback buffer
\* and composing flags; the filter runs before the IME-toggle detection and
\* every other step.
C18_Ignored ==
    IgnoredKeyEvent =>
        /\ last.path = "ignored"
        /\ Self = last.before

\* the Down of the Kanji key, ignored by its label "?", left the fallback
\* mode off while a keystroke item was shown
C18_Witness ==
    /\ IgnoredKeyEvent
    /\ last.ev.key = VK_KANJI
    /\ last.ev.action = "Down"
    /\ ~ime_fallback_enabled
    /\ active_items # <<>>

\* the Down of A, ignored by the entry a, was not captured although the
\* fallback mode was on
C18_LetterWitness ==
    /\ IgnoredKeyEvent
    /\ last.ev.key = KEY_A
    /\ last.ev.action = "Down"
    /\ ~any(last.ev.modifiers)
    /\ ime_fallback_enabled
    /\ ~ime_native_composing

-----------------------------------------------------------------------------
(* The IME-toggle keys: Kana, IME-on, Kanji, IME-off, and the key of scan    *)
(* code 0x29 under the virtual keys a keyboard layout may give it           *)

ToggleKeys ==
    {PhysKey(VK_KANA, 112, FALSE), PhysKey(VK_IME_ON, 0, FALSE), PK_KANJI,
     PK_IME_OFF, PhysKey(VK_OEM_3, 41, FALSE), PhysKey(243, 41, FALSE)}

InitToggle == InitWith({MixBase, [MixBase EXCEPT !.key_transition_mode = "SplitCells"]})

\* process_event(InputEvent::Key) for the toggle keys and the letter A; the
\* toggle keys add nothing to the counters that bound the letters
ToggleKey ==
    \E pk \in ToggleKeys \cup {PK_A}, a \in DownUp :
        LET ke == KeyEventOf(pk, a, NoMods, now)
            r == process_key_event(Self, ke)
        IN /\ pk \in ToggleKeys \/ InBounds("last")
           /\ Install(r.s)
           /\ Record("last", Call("key", ke, r.path, r.target))
           /\ UNCHANGED <<now, tr>>

ToggleIme == ImeStep(MixIme, "last")

NextToggle == ToggleKey \/ ToggleIme

SpecToggle == InitToggle /\ [][NextToggle]_vars

\* the last call is a key event that is not ignored and whose virtual key is
\* Kana, IME-on, Kanji or IME-off or whose scan code is 0x29
ToggleEvent ==
    /\ last.op = "key"
    /\ ~IgnoredKeyEvent
    /\ \/ low_byte(last.ev.key) \in {VK_KANA, VK_IME_ON, VK_KANJI, VK_IME_OFF}
       \/ last.ev.scan_code = 41

\* C19: a non-ignored key event whose virtual key is Kana, IME-on, Kanji or
\* IME-off, or whose scan code is 0x29, is consumed: it creates no item and
\* changes no KeyStroke, KeyStrokeGroup or Shortcut item, nor the repeat
\* tracker, nor the press-target map. On Down the fallback-enabled flag
\* becomes true for IME-on, false for IME-off and is inverted otherwise; on Up
\* it is unchanged. When the flag is false after such a Down the fallback
\* buffer is empty and no ImeComposition item remains.
C19_Toggle ==
    ToggleEvent =>
        /\ last.path = "ime_toggle"
        /\ next_id = last.before.next_id
        /\ SelectSeq(active_items, NotIme) = SelectSeq(last.before.items, NotIme)
        /\ repeat_tracker = last.before.repeat_tracker
        /\ active_presses = last.before.active_presses
        /\ last.ev.action = "Down" =>
              /\ ime_fallback_enabled =
                    CASE low_byte(last.ev.key) = VK_IME_ON -> TRUE
                      [] low_byte(last.ev.key) = VK_IME_OFF -> FALSE
                      [] OTHER -> ~last.before.ime_fallback_enabled
              /\ ~ime_fallback_enabled =>
                    /\ ime_fallback_romaji = <<>>
                    /\ ImeItems(active_items) = {}
        /\ last.ev.action = "Up" =>
              ime_fallback_enabled = last.before.ime_fallback_enabled

\* the Down of the key of scan code 0x29, under a virtual key that is none of
\* the four, switched the fallback mode off: the composition item and the
\* buffer are gone, the keystroke item and its press target are as they were
C19_Witness ==
    /\ ToggleEvent
    /\ last.ev.key = 243
    /\ last.ev.action = "Down"
    /\ last.before.ime_fallback_enabled
    /\ last.before.ime_fallback_romaji # <<>>
    /\ ImeItems(last.before.items) # {}
    /\ ~ime_fallback_enabled
    /\ Len(active_items) = 1
    /\ active_presses # EmptyMap

-----------------------------------------------------------------------------
(* The fallback capture: letters, Backspace and Enter with the Kanji key    *)
(* and native IME events, with show_ime_composition on and off              *)

FallbackKeys == {PK_A, PK_N, PK_BS, PK_ENTER, PK_KANJI}
FallbackConfigs == {MixBase, [MixBase EXCEPT !.show_ime_composition = FALSE]}

InitFallback == InitWith(FallbackConfigs)

FallbackKey == KeyStep(FallbackKeys, {"Down"}, {NoMods}, "last")
FallbackIme == ImeStep(MixIme, "last")

NextFallback == FallbackKey \/ FallbackIme

SpecFallback == InitFallback /\ [][NextFallback]_vars

\* the last call is the Down of a key that is neither ignored nor an
\* IME-toggle key, made with the fallback mode on, no native composition
\* active and none of ctrl, alt, win held
FallbackDown ==
    /\ last.op = "key"
    /\ last.ev.action = "Down"
    /\ ~IgnoredKeyEvent
    /\ ~ToggleEvent
    /\ last.before.ime_fallback_enabled
    /\ ~last.before.ime_native_composing
    /\ ~last.ev.modifiers.ctrl /\ ~last.ev.modifiers.alt /\ ~last.ev.modifiers.win

IsLetterKey(key) == 65 <= low_byte(key) /\ low_byte(key) <= 90

\* the buffer a letter or a Backspace leaves
BufferAfter(buffer, key) ==
    IF IsLetterKey(key)
    THEN Append(buffer, to_ascii_lowercase(vk_char(low_byte(key))))
    ELSE IF buffer = <<>> THEN buffer ELSE SubSeq(buffer, 1, Len(buffer) - 1)

\* what the claim says of the state after the last call
FallbackShown ==
    /\ (IsLetterKey(last.ev.key) \/ low_byte(last.ev.key) = 8) =>
          /\ ime_fallback_romaji = BufferAfter(last.before.ime_fallback_romaji, last.ev.key)
          /\ IF romaji_to_hiragana(ime_fallback_romaji) # <<>>
             THEN /\ Cardinality(ImeItems(active_items)) = 1
                  /\ \A n \in ImeItems(active_items) :
                        active_items[n].kind.text = romaji_to_hiragana(ime_fallback_romaji)
             ELSE ImeItems(active_items) = {}
    /\ low_byte(last.ev.key) \in {13, 27, 9, 32} =>
          /\ ime_fallback_romaji = <<>>
          /\ ImeItems(active_items) = {}
    /\ (IsLetterKey(last.ev.key) \/ low_byte(last.ev.key) \in {8, 13, 27, 9, 32}) =>
          \A n \in DOMAIN active_items :
              active_items[n].id >= last.before.next_id => IsIme(active_items[n])

-----------------------------------------------------------------------------
(* Key events while a composition is shown: the letter A, the digit 1 and   *)
(* the Kanji key, the digit also with Ctrl, mixed with native IME events    *)

InitSuppress == InitWith({MixBase})

\* the key events delivered: physical key, action, modifiers
SuppressEvents ==
    ({PK_A} \X DownUp \X {NoMods})
        \cup ({PK_1} \X DownUp \X MixMods)
        \cup ({PK_KANJI} \X {"Down"} \X {NoMods})

SuppressKey ==
    \E e \in SuppressEvents :
        LET ke == KeyEventOf(e[1], e[2], e[3], now)
            r == process_key_event(Self, ke)
        IN /\ InBounds("last")
           /\ Install(r.s)
           /\ Record("last", Call("key", ke, r.path, r.target))
           /\ UNCHANGED <<now, tr>>
SuppressIme == ImeStep(MixIme, "last")

NextSuppress == SuppressKey \/ SuppressIme

SpecSuppress == InitSuppress /\ [][NextSuppress]_vars

\* the virtual key is alphanumeric or punctuation
IsTextKey(key) ==
    \/ 48 <= low_byte(key) /\ low_byte(key) <= 90
    \/ 186 <= low_byte(key) /\ low_byte(key) <= 226

\* the last call is a key event with such a virtual key, delivered while a
\* composition was active
TextKeyWhileComposing ==
    /\ last.op = "key"
    /\ last.before.ime_composing
    /\ IsTextKey(last.ev.key)

\* C21: while a composition (native or fallback) is active, a key event
\* without ctrl/alt/win whose virtual key is alphanumeric or punctuation and
\* which the fallback step does not capture creates and changes no KeyStroke,
\* KeyStrokeGroup or Shortcut item and leaves the repeat tracker and the
\* press-target map unchanged; the same key with ctrl, alt or win held is not
\* suppressed: its Down is shown as a shortcut or a keystroke.
C21_Suppressed ==
    TextKeyWhileComposing =>
        LET m == last.ev.modifiers
            held == m.ctrl \/ m.alt \/ m.win
            captured == handle_ime_fallback_key(last.before, last.ev).ret
        IN /\ (~held /\ ~captured) =>
                 /\ next_id = last.before.next_id
                 /\ SelectSeq(active_items, NotIme) =
                        SelectSeq(last.before.items, NotIme)
                 /\ repeat_tracker = last.before.repeat_tracker
                 /\ active_presses = last.before.active_presses
           /\ (held /\ ~IgnoredKeyEvent /\ ~ToggleEvent) =>
                 /\ last.path \in {"shortcut", "down", "up"}
                 /\ last.ev.action = "Down" =>
                       SelectSeq(active_items, NotIme) #
                           SelectSeq(last.before.items, NotIme)

\* the Down of the digit 1 during a fallback composition (which captures
\* letters only) left no trace, while a keystroke item was shown
C21_Witness ==
    /\ TextKeyWhileComposing
    /\ last.ev.key = KEY_1
    /\ last.ev.action = "Down"
    /\ ~any(last.ev.modifiers)
    /\ ~last.before.ime_native_composing
    /\ last.before.ime_fallback_romaji # <<>>
    /\ last.path = "suppressed"

\* Ctrl+1 during a native composition was shown as a keystroke
C21_CtrlWitness ==
    /\ TextKeyWhileComposing
    /\ last.ev.key = KEY_1
    /\ last.ev.action = "Down"
    /\ last.ev.modifiers = CtrlMods
    /\ last.before.ime_native_composing
    /\ last.path = "down"
    /\ \E i \in DOMAIN active_items : active_items[i].kind.tag = "KeyStroke"

-----------------------------------------------------------------------------
(* Key events under a shortcut table: a definition without a key part, one  *)
(* with an empty key part ("Ctrl+"), two definitions of Ctrl+A, and a       *)
(* configuration that ignores the key                                      *)

ShortcutTable ==
    << [keys |-> <<"Ctrl">>, label |-> "NoKey"],
       [keys |-> <<"Ctrl", "">>, label |-> "EmptyKey"],
       [keys |-> <<"Ctrl", "A">>, label |-> "First"],
       [keys |-> <<"A", "Ctrl">>, label |-> "Second"] >>

ShortcutBase == [MixBase EXCEPT !.shortcuts = ShortcutTable]
ShortcutConfigs ==
    {ShortcutBase,
     [ShortcutBase EXCEPT !.key_transition_mode = "SplitCells"],
     [ShortcutBase EXCEPT !.ignored_keys = <<"a">>]}

InitShortcut == InitWith(ShortcutConfigs)

ShortcutKey == KeyStep({PK_A}, DownUp, {NoMods, CtrlMods, CtrlShiftMods}, "prev")

NextShortcut == ShortcutKey

SpecShortcut == InitShortcut /\ [][NextShortcut]_vars

ModifierNames == {"Ctrl", "Shift", "Alt", "Win"}

\* the modifiers held, by name
HeldNames(m) ==
    {n \in ModifierNames :
        \/ n = "Ctrl" /\ m.ctrl
        \/ n = "Shift" /\ m.shift
        \/ n = "Alt" /\ m.alt
        \/ n = "Win" /\ m.win}

\* the parts of a definition that are not modifier names
IsKeyPart(part) == part \notin ModifierNames

\* a definition names exactly the held modifiers and, as its key part (the
\* last one if it has several), the full label of the key
Names(def, ke) ==
    LET key_parts == SelectSeq(def.keys, IsKeyPart)
    IN /\ Range(def.keys) \cap ModifierNames = HeldNames(ke.modifiers)
       /\ key_parts # <<>>
       /\ key_parts[Len(key_parts)] # ""
       /\ key_parts[Len(key_parts)] = label(ke.key)

\* the definitions of the table that name the event, by position
NamedBy(cfg, ke) ==
    {i \in DOMAIN cfg.shortcuts :
        HeldNames(ke.modifiers) # {} /\ Names(cfg.shortcuts[i], ke)}

\* the Shortcut items the last call created
NewShortcuts ==
    {i \in DOMAIN active_items :
        /\ active_items[i].kind.tag = "Shortcut"
        /\ active_items[i].id >= last.before.next_id}

\* what the claim says of a Down event: a Shortcut item of the first
\* definition that names it, or none
ShortcutShown ==
    LET hit == NamedBy(last.before.config, last.ev)
        first == CHOOSE i \in hit : \A h \in hit : i <= h
        def == last.before.config.shortcuts[first]
    IN IF hit = {} THEN NewShortcuts = {}
       ELSE /\ NewShortcuts = {Len(active_items)}
            /\ active_items[Len(active_items)].id = last.before.next_id
            /\ active_items[Len(active_items)].kind = Shortcut(def.keys, def.label)

\* the last call is a key Down
KeyDown == last.op = "key" /\ last.ev.action = "Down"

\* the key Down reached the Down handling: it was not ignored, was no
\* IME-toggle key, was not captured by the fallback step, not suppressed
\* during a composition, and is not a modifier key
ReachedDown ==
    /\ KeyDown
    /\ ~IgnoredKeyEvent
    /\ ~ToggleEvent
    /\ ~handle_ime_fallback_key(last.before, last.ev).ret
    /\ ~(last.before.ime_composing /\ should_suppress_during_ime_composition(last.ev))
    /\ ~is_modifier(last.ev.key)

\* C22 as stated: a Down event produces a Shortcut item exactly when at least
\* one modifier is held and some configured definition names the key's full
\* label together with exactly the held modifier set, and the item carries
\* the keys and label of the first such definition
C22_AsStated == KeyDown => ShortcutShown

\* C22: a Down event that reaches the Down handling produces a Shortcut item
\* exactly when at least one modifier is held and some configured definition
\* names the key's full label together with exactly the held modifier set
\* (each of ctrl, shift, alt, win equal, not a subset); the item carries the
\* keys and label of the first such definition in table order. A definition
\* with no key part or an empty key part never matches.
C22_Shortcut ==
    /\ ReachedDown => ShortcutShown
    /\ \A i \in DOMAIN active_items :
          active_items[i].kind.tag = "Shortcut" =>
              active_items[i].kind.action_label \notin {"NoKey", "EmptyKey"}

\* Ctrl+A, named by the third and the fourth definition, is shown with the
\* label of the third
C22_Witness ==
    /\ ReachedDown
    /\ last.ev.modifiers = CtrlMods
    /\ NamedBy(last.before.config, last.ev) = {3, 4}
    /\ \E i \in NewShortcuts : active_items[i].kind.action_label = "First"

\* Ctrl+Shift+A, of which the definitions name a subset, is shown as a
\* keystroke
C22_SubsetWitness ==
    /\ ReachedDown
    /\ last.ev.modifiers = CtrlShiftMods
    /\ last.path = "down"
    /\ NewShortcuts = {}
    /\ next_id = last.before.next_id + 1


\* the last call is a key Down that matched a shortcut definition
ShortcutDown == ReachedDown /\ NamedBy(last.before.config, last.ev) # {}

\* the last call is the Up of the key whose Down, the call before it,
\* matched a shortcut definition
UpAfterShortcut ==
    /\ last.op = "key"
    /\ last.ev.action = "Up"
    /\ hist # <<>>
    /\ hist[1].op = "key"
    /\ hist[1].path = "shortcut"
    /\ PressKey(hist[1].ev) = PressKey(last.ev)
    /\ hist[1].ev.key = last.ev.key

\* C23 as stated: a press whose Down matched a shortcut is shown only as the
\* Shortcut item: the Down does not touch the repeat tracker and removes any
\* press target of that physical key, and the following Up of the same key
\* creates no keystroke item and changes no existing item, in SingleCell and
\* in SplitCells mode
C23_AsStated ==
    /\ ShortcutDown =>
          /\ repeat_tracker = last.before.repeat_tracker
          /\ PressKey(last.ev) \notin DOMAIN active_presses
    /\ UpAfterShortcut =>
          /\ next_id = last.before.next_id
          /\ active_items = last.before.items

\* in SplitCells mode the Up that follows the Down of Ctrl+A, shown as a
\* shortcut, is shown as a keystroke item of its own
C23_Witness ==
    /\ UpAfterShortcut
    /\ config.key_transition_mode = "SplitCells"
    /\ Len(last.before.items) = 1
    /\ Len(active_items) = 2
    /\ active_items[1].kind.tag = "Shortcut"
    /\ active_items[2].kind = KeyStroke("A", last.ev.modifiers, "Up", 1)

\* in SingleCell mode the Down of Ctrl+A removed the press target the plain
\* Down of A had left, and the Up that follows changes nothing
C23_SingleCell ==
    (UpAfterShortcut /\ config.key_transition_mode = "SingleCell") =>
        Self = last.before

\* the press target of A was removed by the Down of Ctrl+A
C23_RemovedWitness ==
    /\ ShortcutDown
    /\ PressKey(last.ev) \in DOMAIN last.before.active_presses
    /\ active_presses = EmptyMap
    /\ repeat_tracker = last.before.repeat_tracker

-----------------------------------------------------------------------------
(* The native composition events, under the specifications above *)

\* the last call is a native CompositionUpdate the engine displays
NativeUpdate ==
    /\ last.op = "ime"
    /\ last.ev.kind = "CompositionUpdate"
    /\ last.before.config.show_ime_composition

\* C24 as stated: a native CompositionUpdate{text} (with show_ime_composition
\* enabled) sets native composition active and empties the fallback buffer;
\* if an ImeComposition item exists, its text becomes the new text and its
\* timer is refreshed (created_at set to the event time, phase Active,
\* opacity 1), so that tick does not fade it before display_duration has
\* passed since this update; otherwise one new ImeComposition item is created
C24_AsStated ==
    NativeUpdate =>
        /\ ime_composing
        /\ ime_native_composing
        /\ ime_fallback_romaji = <<>>
        /\ IF ImeItems(last.before.items) # {}
           THEN /\ next_id = last.before.next_id
                /\ Len(active_items) = Len(last.before.items)
                /\ \E i \in ImeItems(last.before.items) :
                      active_items[i] =
                          [last.before.items[i] EXCEPT
                              !.kind = ImeComposition(last.ev.text),
                              !.created_at = last.ev.timestamp,
                              !.phase = "Active",
                              !.opacity = OpacityOne]
           ELSE /\ next_id = last.before.next_id + 1
                /\ \E i \in DOMAIN active_items :
                      /\ active_items[i].id = last.before.next_id
                      /\ active_items[i].kind = ImeComposition(last.ev.text)
                      /\ ImeItems(active_items) = {i}

\* a CompositionUpdate one time unit after the one that created the item left
\* the item with the creation time of the first, so that with a display
\* duration of one unit a tick at once moves it to FadingOut
C24_Witness ==
    /\ NativeUpdate
    /\ \E i \in ImeItems(active_items) :
          /\ active_items[i].phase = "Active"
          /\ active_items[i].opacity = OpacityOne
          /\ active_items[i].created_at < last.ev.timestamp
          /\ duration_since(last.ev.timestamp, active_items[i].created_at)
                >= config.display_duration_ms
          /\ tick(Self, now).items[i].phase = "FadingOut"


\* the last call is a CompositionEnd
NativeEnd == last.op = "ime" /\ last.ev.kind = "CompositionEnd"

\* C25: a CompositionEnd event removes the ImeComposition item only when the
\* live composition came from the native path: whenever the ImeComposition
\* item was produced by fallback capture (native composition not active),
\* CompositionEnd leaves the item, its text, the fallback buffer and the
\* composing flag unchanged.
C25_NativeOnly ==
    NativeEnd =>
        /\ active_items # last.before.items => last.before.ime_native_composing
        /\ (ImeItems(last.before.items) # {} /\ ~last.before.ime_native_composing) =>
              /\ active_items = last.before.items
              /\ ime_fallback_romaji = last.before.ime_fallback_romaji
              /\ ime_composing = last.before.ime_composing
              /\ Self = last.before

\* a CompositionEnd arrived while the fallback capture showed a composition:
\* item, text, buffer and flag are as they were
C25_Witness ==
    /\ NativeEnd
    /\ ~last.before.ime_native_composing
    /\ last.before.ime_fallback_romaji # <<>>
    /\ ime_composing
    /\ \E i \in ImeItems(active_items) :
          active_items[i].kind.text = romaji_to_hiragana(ime_fallback_romaji)

\* a CompositionEnd ended a native composition
C25_NativeWitness ==
    /\ NativeEnd
    /\ last.before.ime_native_composing
    /\ ImeItems(last.before.items) # {}
    /\ ImeItems(active_items) = {}
    /\ ~ime_composing

-----------------------------------------------------------------------------
(* The refresh of an item by a later keystroke, under the repeated-key      *)
(* specification                                                           *)

\* the existing items the last key event refreshed: the item a keystroke was
\* merged into or whose repeat count was bumped, or the item a SingleCell
\* press-up was applied to
RefreshedIds ==
    IF last.op # "key" THEN {}
    ELSE IF last.path = "down" \/ (last.path = "up" /\ IsSome(last.target))
    THEN {Unwrap(last.target).item_id} \cap ItemIds(last.before.items)
    ELSE IF last.path = "up" /\ PressKey(last.ev) \in DOMAIN last.before.active_presses
    THEN {last.before.active_presses[PressKey(last.ev)].item_id}
    ELSE {}

\* the times from now on at which less than display_duration has passed
\* since the last call
WithinDisplay ==
    {t \in now..(MaxTime + 1) :
        duration_since(t, last.ev.timestamp) < config.display_duration_ms}

\* C26: whenever a keystroke is merged into the most recent item (a KeyStroke
\* promoted to a group, or an entry appended to a group), a repeat count is
\* bumped, or a SingleCell press-up is applied, that item's created_at
\* becomes the event time; hence tick cannot move the item to FadingOut
\* earlier than display_duration after the last such event, and a group that
\* keeps receiving such events at intervals shorter than display_duration
\* stays Active.
C26_Refreshed ==
    \A id \in RefreshedIds :
        \E i \in DOMAIN active_items :
            /\ active_items[i].id = id
            /\ active_items[i].created_at = last.ev.timestamp
            /\ \A t \in WithinDisplay :
                  \E shown \in WithId(tick(Self, t).items, id) :
                      /\ shown.phase = "Active"
                      /\ shown.opacity = OpacityOne

\* a SingleCell press-up at time 2 was applied to the item created at time 0:
\* a tick at time 2 would have moved the item to FadingOut before the Up and
\* leaves it Active after it
C26_Witness ==
    /\ last.op = "key"
    /\ last.ev.action = "Up"
    /\ config.key_transition_mode = "SingleCell"
    /\ \E i \in DOMAIN active_items :
          /\ active_items[i].id \in RefreshedIds
          /\ last.before.items[i].created_at < last.ev.timestamp
          /\ tick(last.before, now).items[i].phase = "FadingOut"
          /\ tick(Self, now).items[i].phase = "Active"

\* an item created at time 0 became a group at time 1 and is still Active
\* after the tick at time 2, the display duration being 2
C26_GroupWitness ==
    /\ last.op = "tick"
    /\ last.ev = 2
    /\ config.display_duration_ms = 2
    /\ Len(hist) >= 3
    /\ hist[1].op = "key" /\ hist[1].ev.timestamp = 0
    /\ hist[1].target = Some(PressTargetItem(0))
    /\ hist[2].op = "key" /\ hist[2].ev.timestamp = 1
    /\ hist[2].target = Some(PressTargetGroup(0, 1))
    /\ \E i \in DOMAIN active_items :
          /\ active_items[i].id = 0
          /\ active_items[i].kind.tag = "KeyStrokeGroup"
          /\ active_items[i].phase = "Active"

-----------------------------------------------------------------------------
(* SingleCell presses of two keys with mouse clicks between them *)

UpConfigs ==
    {[MixBase EXCEPT !.group_timeout_ms = g, !.max_group_size = 3] : g \in {0, 2}}

InitUp == InitWith(UpConfigs)

\* the key events delivered: A pressed and released, B pressed
UpEvents == ({PK_A} \X DownUp) \cup ({PK_B} \X {"Down"})

UpKey ==
    \E e \in UpEvents :
        LET ke == KeyEventOf(e[1], e[2], NoMods, now)
            r == process_key_event(Self, ke)
        IN /\ InBounds("hist")
           /\ Install(r.s)
           /\ Record("hist", Call("key", ke, r.path, r.target))
           /\ UNCHANGED <<now, tr>>

UpMouse == MouseStep(MixMouse, "hist")
UpAdvance == AdvanceTo(MaxPressTime)

NextUp == UpKey \/ UpMouse \/ UpAdvance

SpecUp == InitUp /\ [][NextUp]_vars

\* the keystrokes an item shows: its own, or the entries of a group
StrokesOf(item) ==
    CASE item.kind.tag = "KeyStroke" ->
            <<KeyStrokeEntry(item.kind.label, item.kind.modifiers,
                             item.kind.action, item.kind.repeat_count)>>
      [] item.kind.tag = "KeyStrokeGroup" -> item.kind.strokes
      [] OTHER -> <<>>

\* the position in StrokesOf of the keystroke a press target names
StrokeIndex(target) ==
    IF IsSome(target.group_index) THEN Unwrap(target.group_index) + 1 ELSE 1

\* the last call is a non-modifier Up in SingleCell mode that reached the Up
\* handling
SingleCellUp ==
    /\ last.op = "key"
    /\ last.ev.action = "Up"
    /\ last.path = "up"
    /\ last.before.config.key_transition_mode = "SingleCell"

\* the label under which the key of the last call is displayed
DisplayLabel ==
    IF last.before.config.distinguish_numpad
    THEN label(last.ev.key) ELSE label_plain(last.ev.key)

\* what the Up did to the keystroke the recorded press target names: the
\* mapping is gone, that keystroke shows Up, its item is refreshed, and
\* nothing else changed
UpApplied ==
    LET target == last.before.active_presses[PressKey(last.ev)]
        n == StrokeIndex(target)
    IN /\ active_presses = MapRemove(last.before.active_presses, PressKey(last.ev))
       /\ \E i \in DOMAIN active_items :
             LET was == last.before.items[i]
                 is == active_items[i]
             IN /\ is.id = target.item_id
                /\ was.id = target.item_id
                /\ is.kind.tag = was.kind.tag
                /\ is.created_at = last.ev.timestamp
                /\ is.opacity = OpacityOne
                /\ is.phase = "Active"
                /\ n \in DOMAIN StrokesOf(is)
                /\ StrokesOf(is) = [StrokesOf(was) EXCEPT ![n].action = "Up"]
                /\ \A j \in DOMAIN active_items \ {i} :
                      active_items[j] = last.before.items[j]

\* the keystroke the recorded press target names shows the key of the Up
UpOnOwnKey ==
    LET target == last.before.active_presses[PressKey(last.ev)]
    IN \E item \in WithId(active_items, target.item_id) :
          StrokesOf(item)[StrokeIndex(target)].label = DisplayLabel

\* C27 as stated: in SingleCell mode a non-modifier Up event that reaches Up
\* handling never changes the number of items. If a press target is recorded
\* for its (scan_code, is_numpad), the mapping is removed and exactly the item
\* or group entry that was created for that key's Down (also after the item
\* was promoted to a group or other keys were appended) gets action Up with
\* created_at = now, opacity 1 and phase Active, no other entry's action
\* changing; if no press target is recorded, the engine state is unchanged
C27_AsStated ==
    SingleCellUp =>
        /\ Len(active_items) = Len(last.before.items)
        /\ IF PressKey(last.ev) \in DOMAIN last.before.active_presses
           THEN UpApplied /\ UpOnOwnKey
           ELSE Self = last.before

\* the same without the requirement that the keystroke marked Up shows the
\* key that was released
C27_ByTarget ==
    SingleCellUp =>
        /\ Len(active_items) = Len(last.before.items)
        /\ IF PressKey(last.ev) \in DOMAIN last.before.active_presses
           THEN UpApplied
           ELSE Self = last.before

\* A was pressed, the mouse clicked, A repeated and then released: the Up of
\* A marked the item of the click, and the item of A still shows Down
C27_Witness ==
    /\ SingleCellUp
    /\ last.ev.key = KEY_A
    /\ Len(active_items) = 2
    /\ active_items[1].kind = KeyStroke("A", NoMods, "Down", 1)
    /\ active_items[2].kind = KeyStroke("LClick", NoMods, "Up", 2)
    /\ active_presses = EmptyMap

\* the Up of A marked the first entry of the group its item was promoted to
\* when B was pressed
C27_GroupWitness ==
    /\ SingleCellUp
    /\ last.ev.key = KEY_A
    /\ Len(active_items) = 1
    /\ active_items[1].kind.tag = "KeyStrokeGroup"
    /\ active_items[1].kind.strokes =
          <<KeyStrokeEntry("A", NoMods, "Up", 1), KeyStrokeEntry("B", NoMods, "Down", 1)>>
    /\ last.before.items[1].created_at < active_items[1].created_at

-----------------------------------------------------------------------------
(* Ticks at every time, with key presses and configuration updates that     *)
(* change the display duration between them                                *)

TickConfigs == {DefaultConfig, [DefaultConfig EXCEPT !.display_duration_ms = 1]}

InitTick == InitWith(TickConfigs)

TickKey == KeyStep({PK_A}, DownUp, {NoMods}, "last")
TickCall == TickStep("last")
TickConfig == UpdateConfigStep(TickConfigs, "last")
TickAdvance == AdvanceTo(MaxFadeTime)

NextTick == TickKey \/ TickCall \/ TickConfig \/ TickAdvance

SpecTick == InitTick /\ [][NextTick]_vars

\* the order of the phases
PhaseRank(phase) ==
    CASE phase = "Active" -> 0
      [] phase = "FadingOut" -> 1
      [] phase = "Expired" -> 2

\* the ids of a list, in its order
IdsOf(list) == [i \in DOMAIN list |-> list[i].id]

\* the last call left the remaining items in the order they had
OrderKept ==
    LET Remains(id) == id \in ItemIds(active_items)
    IN IdsOf(active_items) = SelectSeq(IdsOf(last.before.items), Remains)

\* what a tick does to the phases, ids and kinds: an Active item becomes
\* FadingOut exactly when the display duration has passed, and nothing else
\* of it changes; no phase goes back; ids, kinds and order are kept
TickPhases ==
    LET cfg == last.before.config
        t == last.ev
    IN /\ OrderKept
       /\ \A j \in DOMAIN last.before.items :
             LET was == last.before.items[j]
             IN /\ was.phase = "Active" =>
                      WithId(active_items, was.id) =
                          {[was EXCEPT !.phase =
                               IF duration_since(t, was.created_at) >= cfg.display_duration_ms
                               THEN "FadingOut" ELSE "Active"]}
                /\ \A is \in WithId(active_items, was.id) :
                      /\ PhaseRank(is.phase) >= PhaseRank(was.phase)
                      /\ is.kind = was.kind
                      /\ is.created_at = was.created_at

\* tick, clear and update_config return no item to Active
NoRevival ==
    last.op \in {"tick", "clear", "update_config"} =>
        \A j \in DOMAIN last.before.items :
            last.before.items[j].phase # "Active" =>
                \A is \in WithId(active_items, last.before.items[j].id) :
                    is.phase # "Active"

\* C28 as stated: tick(now) moves an Active item to FadingOut exactly when
\* now - created_at >= display_duration, never moves a phase backwards (the
\* order is Active, FadingOut, Expired), never raises an opacity and never
\* changes an item's id, kind or position relative to the other remaining
\* items; only process_event can return an item to Active
C28_AsStated ==
    /\ NoRevival
    /\ last.op = "tick" =>
          /\ TickPhases
          /\ \A j \in DOMAIN last.before.items :
                \A is \in WithId(active_items, last.before.items[j].id) :
                    FracLeq(is.opacity, last.before.items[j].opacity)

\* C28: tick(now) moves an Active item to FadingOut exactly when
\* now - created_at >= display_duration, never moves a phase backwards, never
\* changes an item's id, kind or position relative to the other remaining
\* items, and never raises an opacity that was itself the value of the fade
\* curve under the configuration in force at a time not after now; only
\* process_event can return an item to Active.
C28_Tick ==
    /\ NoRevival
    /\ last.op = "tick" =>
          /\ TickPhases
          /\ \A j \in DOMAIN last.before.items :
                LET was == last.before.items[j]
                IN \A is \in WithId(active_items, was.id) :
                      \A t0 \in 0..last.ev :
                          was.opacity = C8_Expected(last.before.config, was.created_at, t0)
                              => FracLeq(is.opacity, was.opacity)

\* a tick at the very time the display duration had passed moved an item to
\* FadingOut, and took out the item before it, whose fade had ended
C28_Witness ==
    /\ last.op = "tick"
    /\ Len(last.before.items) = 2
    /\ Len(active_items) = 1
    /\ last.before.items[2].phase = "Active"
    /\ duration_since(last.ev, last.before.items[2].created_at) =
          last.before.config.display_duration_ms
    /\ active_items[1].id = last.before.items[2].id
    /\ active_items[1].phase = "FadingOut"

\* a tick after an update of the configuration that lengthened the display
\* duration raised the opacity of a fading item
C28_RaisedWitness ==
    /\ last.op = "tick"
    /\ \E j \in DOMAIN last.before.items :
          \E is \in WithId(active_items, last.before.items[j].id) :
              /\ last.before.items[j].phase = "FadingOut"
              /\ last.before.items[j].opacity = Frac(1, 2)
              /\ config.display_duration_ms = 2
              /\ is.opacity = OpacityOne
              /\ ~FracLeq(is.opacity, last.before.items[j].opacity)

\* a key event returned a fading item to Active
C28_RevivedWitness ==
    /\ last.op = "key"
    /\ \E j \in DOMAIN last.before.items :
          \E is \in WithId(active_items, last.before.items[j].id) :
              /\ last.before.items[j].phase = "FadingOut"
              /\ is.phase = "Active"

-----------------------------------------------------------------------------
(* Items added by clicks, key presses and pastes while the configuration    *)
(* is updated between max_items = 2 and max_items = 1                       *)

EvictConfigs == {MixBase, [MixBase EXCEPT !.max_items = 1]}

InitEvict == InitWith(EvictConfigs)

EvictKey == KeyStep({PK_A}, {"Down"}, {NoMods}, "hist")
EvictMouse == MouseStep(MixMouse, "hist")
EvictClipboard == ClipboardStep(MixClipboard, "hist")
EvictConfig == UpdateConfigStep(EvictConfigs, "hist")

NextEvict == EvictKey \/ EvictMouse \/ EvictClipboard \/ EvictConfig

SpecEvict == InitEvict /\ [][NextEvict]_vars

\* the last call added an item
ItemAdded == last.op \in {"key", "mouse", "clipboard"} /\ next_id = last.before.next_id + 1

\* the number of items the last call evicted
Evicted == Len(last.before.items) + 1 - Len(active_items)

\* the configuration is the one the engine was constructed with
ConfigUnchanged == \A n \in DOMAIN hist : hist[n].op # "update_config"

\* C29: when adding an item makes the list longer than max_items
\* (max_items >= 1), eviction removes items only from the front of the list
\* (the lowest ids, oldest first) and never the item just added, and with an
\* unchanged configuration exactly one item is evicted per add.
C29_Eviction ==
    ItemAdded =>
        LET was == last.before.items
            max_items == last.before.config.max_items
        IN /\ Evicted \in 0..Len(was)
           /\ active_items[Len(active_items)].id = last.before.next_id
           /\ SubSeq(active_items, 1, Len(active_items) - 1) =
                  SubSeq(was, Evicted + 1, Len(was))
           /\ \A i \in 1..Evicted : \A j \in DOMAIN active_items :
                  was[i].id < active_items[j].id
           /\ Evicted = Max(0, Len(was) + 1 - max_items)
           /\ ConfigUnchanged => Evicted <= 1

\* with the configuration unchanged, the third item added under
\* max_items = 2 evicted the first one
C29_Witness ==
    /\ ItemAdded
    /\ ConfigUnchanged
    /\ config.max_items = 2
    /\ Len(last.before.items) = 2
    /\ Evicted = 1
    /\ IdsOf(active_items) = <<last.before.items[2].id, last.before.next_id>>

\* after max_items was lowered from 2 to 1, one add evicted two items
C29_TwoWitness ==
    /\ ItemAdded
    /\ ~ConfigUnchanged
    /\ Evicted = 2
    /\ Len(active_items) = 1

-----------------------------------------------------------------------------
(* main.rs: the main loop. tr holds its locals and what surrounds it: the   *)
(* channel of input events, the privacy flag, whether the foreground window *)
(* changed since the last poll and whether it is privacy-sensitive, the     *)
(* OSD switch, the DPI of the window, and what the last action of the loop  *)
(* did (the event received, the configuration loaded, the engine operations *)
(* called, the items rendered)                                             *)

MaxQueue == 2

LoopConfigs == {MixBase, [MixBase EXCEPT !.max_items = 1]}

\* what load_strict returns for the configuration file: a valid
\* configuration, or an error
LoopFiles == {Some(c) : c \in LoopConfigs} \cup {None}

\* the events the hook threads and the window procedure send
LoopEvents ==
    {[kind |-> "Key", dpi |-> 0], [kind |-> "DpiChanged", dpi |-> 2],
     [kind |-> "ConfigChanged", dpi |-> 0]}

NoEvent == [kind |-> "none", dpi |-> 0, timestamp |-> 0]

\* `enabled && !privacy_active` with the privacy flag left out
should_process_enabled(enabled, privacy_active) == enabled

\* `if enabled && !privacy_active { state.process_event(event) }`
should_process(enabled, privacy_active) == enabled /\ ~privacy_active

InitLoop ==
    /\ \E cfg \in LoopConfigs : Holds(DisplayState_new(cfg, 0))
    /\ now = 0
    /\ last = NoCall
    /\ hist = <<>>
    /\ tr = [queue |-> <<>>, enabled |-> TRUE, privacy_active |-> FALSE,
             fg_changed |-> TRUE, fg_private |-> FALSE, dpi |-> 1,
             was_rendering |-> FALSE, event |-> NoEvent, loaded |-> None,
             called |-> <<>>, did_render |-> FALSE, rendered |-> <<>>]

\* a hook thread or the window procedure sends an event
LoopSend ==
    /\ Len(tr.queue) < MaxQueue
    /\ \E e \in LoopEvents :
          /\ e.kind = "Key" =>
                LET queued == Len(SelectSeq(tr.queue, LAMBDA q : q.kind = "Key"))
                IN /\ next_id + queued < MaxId
                   /\ repeat_tracker.count + queued < MaxRepeat
          /\ tr' = [tr EXCEPT !.queue = Append(@, [kind |-> e.kind, dpi |-> e.dpi,
                                                    timestamp |-> now])]
    /\ UNCHANGED <<engine, now, last, hist>>

\* another window comes to the foreground
LoopForeground ==
    /\ \E private \in BOOLEAN :
          tr' = [tr EXCEPT !.fg_changed = TRUE, !.fg_private = private]
    /\ UNCHANGED <<engine, now, last, hist>>

\* one turn of `while let Ok(event) = rx.try_recv()`
LoopRecv ==
    /\ tr.queue # <<>>
    /\ \E file \in LoopFiles :
          LET e == Head(tr.queue)
              ke == KeyEventOf(PK_A, "Down", NoMods, e.timestamp)
              reload == e.kind = "ConfigChanged" /\ file # None
              process == e.kind = "Key" /\ should_process(tr.enabled, tr.privacy_active)
          IN /\ Install(CASE reload -> update_config(Self, Unwrap(file))
                          [] process -> process_key_event(Self, ke).s
                          [] OTHER -> Self)
             /\ tr' = [tr EXCEPT
                         !.queue = Tail(@),
                         !.dpi = IF e.kind = "DpiChanged" THEN e.dpi ELSE @,
                         !.event = e,
                         !.loaded = IF e.kind = "ConfigChanged" THEN file ELSE None,
                         !.called = CASE reload -> <<"update_config">>
                                      [] process -> <<"process_event">>
                                      [] OTHER -> <<>>]
    /\ UNCHANGED <<now, last, hist>>

\* the rest of an iteration, once the channel is empty: the foreground poll
\* with clear() when the privacy flag turns active, the hot reload, tick and
\* the rendering; the OSD switch is read at the top of the next iteration
LoopFrame ==
    /\ tr.queue = <<>>
    /\ \E due \in BOOLEAN, file \in LoopFiles, enabled \in BOOLEAN :
          LET polled == due /\ tr.fg_changed
              privacy_active == IF polled THEN tr.fg_private ELSE tr.privacy_active
              cleared == polled /\ privacy_active /\ ~tr.privacy_active
              s1 == IF cleared THEN clear(Self) ELSE Self
              s2 == IF file # None THEN update_config(s1, Unwrap(file)) ELSE s1
              s3 == tick(s2, now)
              has_items == s3.items # <<>>
              render == has_items \/ tr.was_rendering
          IN /\ Install(s3)
             /\ tr' = [tr EXCEPT
                         !.enabled = enabled,
                         !.privacy_active = privacy_active,
                         !.fg_changed = IF polled THEN FALSE ELSE @,
                         !.was_rendering = IF render THEN has_items ELSE @,
                         !.event = NoEvent,
                         !.loaded = file,
                         !.called = (IF cleared THEN <<"clear">> ELSE <<>>)
                                    \o (IF file # None THEN <<"update_config">> ELSE <<>>)
                                    \o <<"tick">>,
                         !.did_render = render,
                         !.rendered = IF render THEN s3.items ELSE <<>>]
    /\ UNCHANGED <<now, last, hist>>

NextLoop == LoopSend \/ LoopForeground \/ LoopRecv \/ LoopFrame

SpecLoop == InitLoop /\ [][NextLoop]_vars

\* C30: in the main loop, from the moment the privacy flag turns from
\* inactive to active (clear() is called) until it turns inactive again,
\* process_event is never called for any queued event and active_items() is
\* empty at every render; DpiChanged and ConfigChanged events are still
\* handled by the loop during that period.
C30_Privacy ==
    tr.privacy_active =>
        /\ active_items = <<>>
        /\ tr.rendered = <<>>
        /\ \A n \in DOMAIN tr.called : tr.called[n] # "process_event"
        /\ tr.event.kind = "DpiChanged" => tr.dpi = tr.event.dpi
        /\ (tr.event.kind = "ConfigChanged" /\ tr.loaded # None) =>
              /\ tr.called = <<"update_config">>
              /\ config = Unwrap(tr.loaded)

\* a key event was received and dropped while the privacy flag was active
\* and the OSD enabled, after items had been shown and cleared
C30_Witness ==
    /\ tr.privacy_active
    /\ tr.enabled
    /\ tr.event.kind = "Key"
    /\ tr.called = <<>>
    /\ next_id > 0
    /\ active_items = <<>>

\* the frame in which the flag turned active rendered the emptied list
C30_ClearWitness ==
    /\ tr.privacy_active
    /\ tr.called # <<>>
    /\ tr.called[1] = "clear"
    /\ tr.did_render
    /\ next_id > 0

\* a DpiChanged and a ConfigChanged event were handled while the flag was
\* active
C30_HandledWitness ==
    /\ tr.privacy_active
    /\ tr.dpi = 2
    /\ tr.event.kind = "ConfigChanged"
    /\ tr.loaded # None
    /\ config.max_items = 1

-----------------------------------------------------------------------------
(* main.rs: the periodic hot reload. tr holds the configuration file (its   *)
(* JSON text, None when there is no file), its modification time, and the   *)
(* `config` local of main                                                   *)

\* the configuration the engine reads out of an AppConfig
EngineConfig(app) ==
    [MixBase EXCEPT !.max_items = app.max_items,
                    !.key_transition_mode = app.key_transition_mode]

\* a check_reload that loads the file whatever its modification time
check_reload_always(self, file, modified) ==
    IF file = None THEN [err |-> "IoError", cfg |-> None]
    ELSE LET r == load_strict(file)
         IN IF r.err # "" THEN r
            ELSE [err |-> "",
                  cfg |-> Some([Unwrap(r.cfg) EXCEPT !.last_modified = Some(modified)])]

\* AppConfig::check_reload: an error, Ok(None) (cfg is None) or
\* Ok(Some(config)); std::fs::metadata fails when there is no file
check_reload(self, file, modified) ==
    IF file = None THEN [err |-> "IoError", cfg |-> None]
    ELSE LET should_reload == IF self.last_modified # None
                              THEN modified > Unwrap(self.last_modified)
                              ELSE TRUE
         IN IF ~should_reload THEN [err |-> "", cfg |-> None]
            ELSE LET r == load_strict(file)
                 IN IF r.err # "" THEN r
                    ELSE [err |-> "",
                          cfg |-> Some([Unwrap(r.cfg) EXCEPT
                                           !.last_modified = Some(modified)])]

\* configurations a file can hold: two valid ones, and two that fail
\* validate() (max_items 0, another schema version)
HotConfigs ==
    {[AppConfig_default EXCEPT !.max_items = n] : n \in {0, 1, 2}}
        \cup {[AppConfig_default EXCEPT !.schema_version = 1]}

\* the texts of the file: a saved configuration, the same with font_size null
\* (not parsed as an f32), or no file
HotFiles ==
    {Some(to_string_pretty(c)) : c \in HotConfigs}
        \cup {Some([to_string_pretty(AppConfig_default) EXCEPT !.font_size = JNull])}
        \cup {None}

\* main after load_config_with_recovery and DisplayState::new: the file
\* holds the configuration that was loaded
InitHot ==
    /\ now = 0
    /\ last = NoCall
    /\ hist = <<>>
    /\ \E c \in HotConfigs :
          /\ AppConfig_validate(c)
          /\ Holds(DisplayState_new(EngineConfig(c), 0))
          /\ tr = [file |-> Some(to_string_pretty(c)), modified |-> 0,
                   config |-> [c EXCEPT !.last_modified = Some(0)]]

HotKey == KeyStep({PK_A}, DownUp, {NoMods}, "last")

\* the file is written, removed or touched by another program
HotWrite ==
    /\ \E file \in HotFiles, modified \in 0..MaxTime :
          tr' = [tr EXCEPT !.file = file, !.modified = modified]
    /\ UNCHANGED <<engine, now, last, hist>>

\* the hot-reload block of the main loop: check_reload, and on
\* Ok(Some(new_config)) apply_config (update_config) and config = new_config
HotCheck ==
    LET r == check_reload(tr.config, tr.file, tr.modified)
        applied == r.err = "" /\ r.cfg # None
        path == CASE r.err # "" -> r.err
                  [] applied -> "applied"
                  [] OTHER -> "unchanged"
    IN /\ Install(IF applied THEN update_config(Self, EngineConfig(Unwrap(r.cfg)))
                  ELSE Self)
       /\ tr' = [tr EXCEPT !.config = IF applied THEN Unwrap(r.cfg) ELSE @]
       /\ Record("last", Call("check_reload", tr, path, None))
       /\ UNCHANGED now

NextHot == HotKey \/ HotWrite \/ HotCheck

SpecHot == InitHot /\ [][NextHot]_vars

\* the last step was the hot-reload block
HotChecked == last.op = "check_reload"

\* the file as the hot-reload block found it was newer than the last one
\* loaded
HotChanged ==
    /\ last.ev.file # None
    /\ last.ev.modified > Unwrap(last.ev.config.last_modified)

\* the file as the hot-reload block found it passes strict parsing and
\* validate()
HotLoads ==
    /\ last.ev.file # None
    /\ from_str(Unwrap(last.ev.file)) # None
    /\ AppConfig_validate(Unwrap(from_str(Unwrap(last.ev.file))))

\* C31: when the periodic hot reload finds the file changed but loading or
\* validation fails, the running configuration and the engine are left as
\* they were; a new configuration is applied only when the modification time
\* of the file is strictly later than the last loaded one and the file passes
\* strict parsing and validate().
C31_HotReload ==
    HotChecked =>
        /\ (HotChanged /\ ~HotLoads) =>
              /\ Holds(last.before)
              /\ tr.config = last.ev.config
              /\ last.path \in {"ParseError", "ValidationError"}
        /\ (last.path = "applied" \/ ~Holds(last.before) \/ tr.config # last.ev.config) =>
              /\ HotChanged
              /\ HotLoads
              /\ last.path = "applied"
              /\ config = EngineConfig(Unwrap(from_str(Unwrap(last.ev.file))))
              /\ tr.config.last_modified = Some(last.ev.modified)

\* a newer file that fails validate() was found while an item was shown, and
\* nothing changed
C31_Witness ==
    /\ HotChecked
    /\ HotChanged
    /\ last.path = "ValidationError"
    /\ active_items # <<>>
    /\ Holds(last.before)

\* a newer file with another max_items was applied
C31_AppliedWitness ==
    /\ HotChecked
    /\ last.path = "applied"
    /\ config.max_items # last.before.config.max_items

\* a valid file with another content but no later modification time was not
\* loaded
C31_StaleWitness ==
    /\ HotChecked
    /\ last.path = "unchanged"
    /\ HotLoads
    /\ ~HotChanged
    /\ config # EngineConfig(Unwrap(from_str(Unwrap(last.ev.file))))

-----------------------------------------------------------------------------
(* The bound on the list when update_config lowers max_items *)

BoundConfigs == {MixBase, [MixBase EXCEPT !.max_items = 1]}

InitBound == InitWith(BoundConfigs)

BoundKey == KeyStep({PK_A}, DownUp, {NoMods}, "last")
BoundMouse == MouseStep(MixMouse, "last")
BoundTick == TickStep("last")
BoundConfig == UpdateConfigStep(BoundConfigs, "last")
BoundAdvance == AdvanceTo(MaxTime)

NextBound == BoundKey \/ BoundMouse \/ BoundTick \/ BoundConfig \/ BoundAdvance

SpecBound == InitBound /\ [][NextBound]_vars

\* C32: for every sequence of process_event, tick and update_config calls,
\* immediately after each process_event or tick the list holds at most
\* max_items items of the configuration held at that moment, also when
\* update_config installed a smaller max_items than before.
C32_AsStated ==
    last.op \in {"key", "mouse", "tick"} =>
        Len(active_items) <= config.max_items

\* two items were shown with max_items 2, update_config installed max_items
\* 1, and after a tick that removed nothing the list still holds two
C32_Witness ==
    /\ last.op = "tick"
    /\ config.max_items = 1
    /\ last.before.config.max_items = 1
    /\ Len(active_items) = 2
    /\ \A i \in DOMAIN active_items : active_items[i].phase = "Active"

-----------------------------------------------------------------------------
(* Two keys pressed and released among the other operations *)

InitShape == InitWith({MixBase})

\* the key events delivered: A pressed and released, B pressed, and Ctrl+A
\* (a shortcut) pressed
ShapeEvents ==
    ({PK_A} \X DownUp \X {NoMods})
        \cup {<<PK_B, "Down", NoMods>>, <<PK_A, "Down", CtrlMods>>}

ShapeKey ==
    \E e \in ShapeEvents :
        LET ke == KeyEventOf(e[1], e[2], e[3], now)
            r == process_key_event(Self, ke)
        IN /\ InBounds("off")
           /\ Install(r.s)
           /\ UNCHANGED <<now, last, hist, tr>>

ShapeMouse == MouseStep(MixMouse, "off")
ShapeTick == TickStep("off")
ShapeConfigs == {MixBase, [MixBase EXCEPT !.key_transition_mode = "SplitCells"]}
ShapeConfig == UpdateConfigStep(ShapeConfigs, "off")
ShapeAdvance == AdvanceTo(MaxPressTime)

NextShape ==
    \/ ShapeKey \/ ShapeMouse
    \/ ShapeTick \/ ShapeConfig \/ ShapeAdvance

SpecShape == InitShape /\ [][NextShape]_vars

\* whether a press target is shaped for an item
ShapedFor(target, item) ==
    CASE item.kind.tag = "KeyStroke" -> target.group_index = None
      [] item.kind.tag = "KeyStrokeGroup" ->
            /\ IsSome(target.group_index)
            /\ Unwrap(target.group_index) < Len(item.kind.strokes)
      [] OTHER -> FALSE

\* C33: after every operation, every press target is shaped for the item it
\* points to: no group index when the item is a plain KeyStroke, a group
\* index smaller than the number of entries when it is a KeyStrokeGroup; a
\* press target never points to a Shortcut, ImeComposition, ClipboardPreview
\* or LockIndicator item.
C33_Shaped ==
    \A k \in DOMAIN active_presses :
        \A i \in DOMAIN active_items :
            active_items[i].id = active_presses[k].item_id =>
                ShapedFor(active_presses[k], active_items[i])

\* a key was held when a second key promoted its item to a group: the first
\* press points to entry 0, the second to entry 1
C33_Witness ==
    /\ Len(active_items) = 1
    /\ active_items[1].kind.tag = "KeyStrokeGroup"
    /\ \E k1, k2 \in DOMAIN active_presses :
          /\ active_presses[k1] = PressTargetGroup(active_items[1].id, 0)
          /\ active_presses[k2] = PressTargetGroup(active_items[1].id, 1)

\* a key is held while the list also shows a shortcut
C33_OthersWitness ==
    /\ active_presses # EmptyMap
    /\ \E i \in DOMAIN active_items : active_items[i].kind.tag = "Shortcut"

-----------------------------------------------------------------------------
(* Which keystroke a repeated Down changes (under SpecUp) *)

\* the last call is a Down that reached the repeat accounting and for which
\* the tracker returned a count greater than 1
BumpDown ==
    /\ last.op = "key"
    /\ last.ev.action = "Down"
    /\ last.path = "down"
    /\ last.before.config.show_repeat_count
    /\ repeat_tracker.count > 1

\* the keystrokes shown before the last call whose repeat count or action the
\* call changed, as pairs of an item id and a position in StrokesOf
BumpedStrokes ==
    UNION {{<<was.id, n>> :
                n \in {m \in DOMAIN StrokesOf(was) :
                          \E is \in WithId(active_items, was.id) :
                              /\ m \in DOMAIN StrokesOf(is)
                              /\ \/ StrokesOf(is)[m].repeat_count #
                                        StrokesOf(was)[m].repeat_count
                                 \/ StrokesOf(is)[m].action # StrokesOf(was)[m].action}} :
           was \in Range(last.before.items)}

\* C34: whenever a Down event bumps a repeat count (the tracker returned a
\* count greater than 1), the item or group entry whose repeat_count is
\* changed, and in SingleCell mode whose action is forced back to Down,
\* carries the label of the key that was pressed; an item of another key or a
\* mouse-click item never has its repeat_count or action changed by the event.
C34_AsStated ==
    BumpDown =>
        \A p \in BumpedStrokes :
            \A is \in WithId(active_items, p[1]) :
                StrokesOf(is)[p[2]].label = DisplayLabel

\* A was pressed, the mouse clicked, and A pressed again: the item of the
\* click shows a repeat count of 2, the item of A still 1
C34_Witness ==
    /\ BumpDown
    /\ last.ev.key = KEY_A
    /\ Len(active_items) = 2
    /\ active_items[1].kind = KeyStroke("A", NoMods, "Down", 1)
    /\ active_items[2].kind = KeyStroke("LClick", NoMods, "Down", 2)

\* a repeated Down of A raised the count of the item of A
C34_OwnWitness ==
    /\ BumpDown
    /\ last.ev.key = KEY_A
    /\ Len(active_items) = 1
    /\ active_items[1].kind = KeyStroke("A", NoMods, "Down", 2)

-----------------------------------------------------------------------------
(* The composing flag and the composition item (under Spec) *)

\* C35: whenever the composing flag is set, active_items() contains an
\* ImeComposition item; this holds after every process_event and every tick,
\* also when the composition item expires by tick or is evicted by max_items.
C35_AsStated ==
    ime_composing => ImeItems(active_items) # {}

\* a native composition was shown as the only item ever created, time passed
\* and tick removed it: the flag is still set and the list is empty
C35_Witness ==
    /\ ime_composing
    /\ ime_native_composing
    /\ next_id = 1
    /\ active_items = <<>>

\* the composition item was evicted by newer items before anything could
\* expire, and the flag is still set
C35_EvictedWitness ==
    /\ ime_composing
    /\ ime_native_composing
    /\ now = 0
    /\ Len(active_items) = config.max_items
    /\ ImeItems(active_items) = {}

-----------------------------------------------------------------------------
(* show_ime_composition switched on and off by update_config while IME     *)
(* events and key presses arrive                                           *)

ImeOffConfigs == {MixBase, [MixBase EXCEPT !.show_ime_composition = FALSE]}

InitImeOff == InitWith(ImeOffConfigs)

ImeOffKey == KeyStep(MixKeys, {"Down"}, MixMods, "last")
ImeOffIme == ImeStep(MixIme, "last")
ImeOffConfig == UpdateConfigStep(ImeOffConfigs, "last")

NextImeOff == ImeOffKey \/ ImeOffIme \/ ImeOffConfig

SpecImeOff == InitImeOff /\ [][NextImeOff]_vars

\* the last call is a process_event made while show_ime_composition is off
EventWhileOff ==
    /\ last.op \in {"key", "ime"}
    /\ ~last.before.config.show_ime_composition

\* C36: while the held configuration has show_ime_composition = false, no key
\* event is suppressed on account of IME composition and no ImeComposition
\* item is created: every non-ignored, non-toggle, non-modifier key Down
\* produces or updates a keystroke or shortcut item, also when
\* show_ime_composition was switched off by update_config while a composition
\* was active.
C36_AsStated ==
    EventWhileOff =>
        /\ \A i \in ImeItems(active_items) :
              active_items[i].id \in ItemIds(last.before.items)
        /\ (/\ last.op = "key"
            /\ last.ev.action = "Down"
            /\ last.path \notin {"ignored", "ime_toggle", "modifier"}) =>
              /\ last.path \in {"down", "shortcut"}
              /\ active_items # last.before.items

\* a composition was active when update_config switched show_ime_composition
\* off, and the Down of A that followed was suppressed
C36_Witness ==
    /\ EventWhileOff
    /\ last.op = "key"
    /\ last.ev.key = KEY_A
    /\ last.path = "suppressed"
    /\ ime_composing
    /\ Self = last.before

\* with the flag off from the start the same Down is shown
C36_ShownWitness ==
    /\ EventWhileOff
    /\ last.op = "key"
    /\ last.ev.key = KEY_A
    /\ last.path = "down"
    /\ next_id = 1
    /\ ~ime_composing

-----------------------------------------------------------------------------
(* What a tick leaves in the list (under SpecFade) *)

\* the time at which the whole lifetime of an item has elapsed
LifetimeEnd(cfg, item) ==
    item.created_at + cfg.display_duration_ms + cfg.fade_duration_ms

\* C37: after tick(now) returns, active_items() contains no item with
\* created_at + display_duration + fade_duration <= now; in particular an item
\* that was still Active when the tick was called is removed by that same
\* tick, and every remaining FadingOut item has the opacity the fade curve
\* gives for now.
C37_AsStated ==
    last.op = "tick" =>
        \A i \in DOMAIN active_items :
            LET item == active_items[i]
            IN /\ LifetimeEnd(config, item) > last.ev
               /\ item.phase = "FadingOut" =>
                     item.opacity = C8_Expected(config, item.created_at, last.ev)

\* the first tick after a key press came when the whole lifetime of the item
\* had elapsed: the item is still in the list, FadingOut with opacity 1
C37_Witness ==
    /\ last.op = "tick"
    /\ Len(active_items) = 1
    /\ last.before.items[1].phase = "Active"
    /\ last.before.items[1].kind.tag = "KeyStroke"
    /\ LifetimeEnd(config, active_items[1]) <= last.ev
    /\ active_items[1].phase = "FadingOut"
    /\ active_items[1].opacity = OpacityOne

\* a tick in the middle of the fade found the item Active and left it
\* FadingOut with opacity 1, where the curve gives less
C37_OpacityWitness ==
    /\ last.op = "tick"
    /\ Len(active_items) = 1
    /\ last.before.items[1].phase = "Active"
    /\ LifetimeEnd(config, active_items[1]) > last.ev
    /\ active_items[1].phase = "FadingOut"
    /\ active_items[1].opacity = OpacityOne
    /\ C8_Expected(config, active_items[1].created_at, last.ev) # OpacityOne

\* the tick after that one removed the item
C37_NextTickWitness ==
    /\ last.op = "tick"
    /\ active_items = <<>>
    /\ Len(last.before.items) = 1
    /\ last.before.items[1].phase = "FadingOut"
    /\ last.before.items[1].opacity = OpacityOne

-----------------------------------------------------------------------------
(* Repeat counts after clear() (under SpecClear) *)

ClearCalls == {n \in DOMAIN hist : hist[n].op = "clear"}

\* the last clear() of the list of calls
LastClear == CHOOSE n \in ClearCalls : \A m \in ClearCalls : m <= n

\* the number of Down events of a physical key processed since the last
\* clear()
DownsSinceClear(pk) ==
    Cardinality({n \in DownCalls : n > LastClear /\ hist[n].ev.key = pk.key})

\* C38: after clear(), the repeat_count displayed for a key never exceeds the
\* number of Down events of that key processed since the clear(): presses
\* made before the clear() do not contribute to any count shown afterwards.
\* (A repeat_count of 1 is that of a keystroke shown without repetition, as
\* the Up item of SplitCells mode has it.)
C38_AsStated ==
    ClearCalls # {} =>
        \A pk \in {PK_A, PK_B} :
            \A at \in ShownFor(active_items, label(pk.key)) :
                CountAt(active_items, at) <= Max(1, DownsSinceClear(pk))

\* A was pressed, clear() called, and A pressed twice: the item of A shows a
\* repeat count of 3
C38_Witness ==
    /\ Len(hist) = 4
    /\ ClearCalls # {}
    /\ LastClear = 2
    /\ IsKeyCall(1, PressKey(KeyEventOf(PK_A, "Down", NoMods, 0)), "Down")
    /\ DownsSinceClear(PK_A) = 2
    /\ Len(active_items) = 1
    /\ active_items[1].kind = KeyStroke("A", NoMods, "Down", 3)

\* with no press before the clear() the same two presses show a count of 2
C38_FreshWitness ==
    /\ Len(hist) = 3
    /\ ClearCalls # {}
    /\ LastClear = 1
    /\ DownsSinceClear(PK_A) = 2
    /\ Len(active_items) = 1
    /\ active_items[1].kind = KeyStroke("A", NoMods, "Down", 2)

-----------------------------------------------------------------------------
(* Key events of two keys under max_group_size 1 and 2 *)

SizeConfigs ==
    {[GroupBase EXCEPT !.max_group_size = g, !.key_transition_mode = m] :
        g \in {1, 2}, m \in {"SingleCell", "SplitCells"}}

InitSize == InitWith(SizeConfigs)

SizeKey == KeyStep({PK_A, PK_B}, DownUp, {NoMods}, "last")
SizeAdvance == AdvanceTo(MaxPressTime)

NextSize == SizeKey \/ SizeAdvance

SpecSize == InitSize /\ [][NextSize]_vars

\* the groups of a list
GroupsOf(list) == {n \in DOMAIN list : list[n].kind.tag = "KeyStrokeGroup"}

\* every group of the list has at least 2 and at most max entries
GroupSizes(max) ==
    \A n \in GroupsOf(active_items) :
        /\ Len(active_items[n].kind.strokes) >= 2
        /\ Len(active_items[n].kind.strokes) <= max

\* the last call left the entries every group had in place, under the same
\* label and modifiers, adding entries at the end only
AppendedOnly ==
    last.op = "key" =>
        \A n \in GroupsOf(last.before.items) :
            \A is \in WithId(active_items, last.before.items[n].id) :
                LET old == last.before.items[n].kind.strokes
                IN /\ is.kind.tag = "KeyStrokeGroup"
                   /\ Len(is.kind.strokes) >= Len(old)
                   /\ \A e \in DOMAIN old :
                         /\ is.kind.strokes[e].label = old[e].label
                         /\ is.kind.strokes[e].modifiers = old[e].modifiers

\* C39: for a fixed configuration with max_group_size >= 1, every
\* KeyStrokeGroup in active_items() has at least 2 and at most max_group_size
\* entries after every sequence of key events; entries are only ever appended
\* at the end, never removed or reordered.
C39_AsStated ==
    config.max_group_size >= 1 =>
        /\ GroupSizes(config.max_group_size)
        /\ AppendedOnly

\* with max_group_size 1, A and B pressed within group_timeout are shown as a
\* group of two entries
C39_Witness ==
    /\ config.max_group_size = 1
    /\ last.op = "key"
    /\ last.ev.key = KEY_B
    /\ Len(active_items) = 1
    /\ active_items[1].kind.tag = "KeyStrokeGroup"
    /\ LabelsOf(active_items[1]) = <<"A", "B">>

\* with max_group_size 2 a third keystroke within group_timeout starts a new
\* item
C39_FullWitness ==
    /\ config.max_group_size = 2
    /\ last.op = "key"
    /\ Len(active_items) = 2
    /\ Len(last.before.items) = 1
    /\ active_items[1] = last.before.items[1]
    /\ active_items[1].kind.tag = "KeyStrokeGroup"
    /\ active_items[2].created_at = active_items[1].created_at

=============================================================================
